---------------------------- MODULE Spec2Model ----------------------------
(***************************************************************************)
(* The span classification and transaction assembly engine of the Sentry   *)
(* exporter: pushTraceData (the classifier loop), classifyAsOrphanSpans    *)
(* (the orphan resolver), generateTransactions and transactionFromSpans.   *)
(*                                                                         *)
(* Identifiers are opaque keys that the engine only compares for equality  *)
(* and uses as map keys.  An integer names a byte identifier and, String() *)
(* being injective, its hex string as well: a positive integer is a        *)
(* non-zero identifier, 0 the all-zero identifier ("0000000000000000" as a *)
(* string) and -1 the nil byte slice (the empty string "" as a string).    *)
(*                                                                         *)
(* A converted span carries the field idx, the position of the span in the *)
(* batch: it stands for the identity of the *sentry.Span pointer, so that  *)
(* two spans with equal identifiers remain two spans.                      *)
(***************************************************************************)
EXTENDS Integers, Sequences, FiniteSets, TLC

VARIABLES
    batch,            \* td, flattened: the spans in visiting order, each with its resource and library context
    pc,               \* position inside pushTraceData
    k,                \* the classifier's position in the batch
    idMap,            \* span id -> root span id
    rootSpanTreeMap,  \* root span id -> rootSpanTree
    maybeOrphanSpans, \* the classifier's worklist
    orphanSpans,      \* classifyAsOrphanSpans: parameter orphanSpans
    prevLength,       \* classifyAsOrphanSpans: parameter prevLength
    newOrphanSpans,   \* classifyAsOrphanSpans: local newOrphanSpans
    i,                \* classifyAsOrphanSpans: position of the range loop
    passes,           \* number of passes (range loops) started by the resolver
    transactions,     \* result of generateTransactions
    ret,              \* what pushTraceData returned
    other,            \* the local variables of a concurrent call that is waiting its turn
    t,                \* SentryTransport: DSN, buffer, disabledUntil, wg, start, BufferSize
    channels,         \* the channels made by Configure, by number: capacity and queue
    worker,           \* the goroutine of SentryTransport.worker: position, channel, request
    client,           \* the goroutine that calls Configure and SendTransaction
    flush,            \* the call of SentryTransport.Flush: position, timer, channel c, result
    now,              \* the clock, in ticks
    retryAfterCall,   \* a call of retryAfter: arguments and result
    fnCall            \* a call of one of the other functions without state: name, argument, result

vars == <<batch, pc, k, idMap, rootSpanTreeMap, maybeOrphanSpans, orphanSpans,
          prevLength, newOrphanSpans, i, passes, transactions, ret, other,
          t, channels, worker, client, flush, now, retryAfterCall, fnCall>>

engineVars == <<batch, pc, k, idMap, rootSpanTreeMap, maybeOrphanSpans, orphanSpans,
                prevLength, newOrphanSpans, i, passes, transactions, ret, other>>

transportVars == <<t, channels, worker, client, flush, now, retryAfterCall>>

-----------------------------------------------------------------------------
(* Bounds *)

MaxSpans == 3      \* longest batch of the general specification
NumIds == 3        \* identifiers 1..NumIds of the general specification
MaxUnique == 4     \* longest batch of the unique-identifier specification
MaxMeta == 2       \* longest batch of the metadata specification
MaxCallSpans == 1  \* longest batch of each of two concurrent calls
MaxTraceSpans == 3 \* longest batch of the trace-identifier specification
MaxGroupSpans == 3 \* longest batch of the resource-and-library-group specification
MaxConfigures == 2 \* calls of Configure
MaxSends == 2      \* calls of SendTransaction
MaxBufferSize == 1 \* largest BufferSize of the transport specification
MaxTime == 2       \* last tick of the clock
MaxOrderSpans == 3 \* longest batch that is processed in two orders
MaxCode == 18      \* largest status code next to the table, the codes being -MaxCode..MaxCode

-----------------------------------------------------------------------------
(* Identifiers *)

NilBytes == -1     \* a nil byte slice
ZeroBytes == 0     \* the all-zero byte identifier
NoParent == -1     \* the empty string "" in Span.ParentSpanID

isAllZero(id) == id \in {NilBytes, ZeroBytes}

(* Tags: a map from string to string is a function on the set of its keys. *)
TagKeys == {"k1"}
EmptyMap == [key \in {} |-> key]
EmptyTags == EmptyMap
TagMapsOver(values) == UNION {[D -> values] : D \in SUBSET TagKeys}

MapPut(m, key, value) ==
    [x \in DOMAIN m \cup {key} |-> IF x = key THEN value ELSE m[x]]

-----------------------------------------------------------------------------
(* Conversion and root test *)

(* Without the all-zero test: the parent identifier is converted as it is. *)
convertToSentrySpanUnnormalised(span, idx) ==
    [idx          |-> idx,
     TraceID      |-> span.TraceID,
     SpanID       |-> span.SpanID,
     ParentSpanID |-> span.ParentSpanID,
     Tags         |-> span.Tags]

convertToSentrySpan(span, idx) ==
    [idx          |-> idx,
     TraceID      |-> span.TraceID,
     SpanID       |-> span.SpanID,
     ParentSpanID |-> IF isAllZero(span.ParentSpanID) THEN NoParent ELSE span.ParentSpanID,
     Tags         |-> span.Tags]

(* The parent is compared with the all-zero identifier, not with "". *)
IsRootSpanByZero(s) == s.ParentSpanID = ZeroBytes

IsRootSpan(s) == s.ParentSpanID = NoParent

(* The name and the version are recorded whenever the library is not nil. *)
libraryOfAsGiven(library) ==
    IF ~library.isNil
    THEN [name |-> library.name, version |-> library.version]
    ELSE [name |-> "", version |-> ""]

(* The library name and version recorded for a span group. *)
libraryOf(library) ==
    IF ~library.isNil /\ library.name # "" /\ library.version # ""
    THEN [name |-> library.name, version |-> library.version]
    ELSE [name |-> "", version |-> ""]

-----------------------------------------------------------------------------
(* Transaction builder *)

(* The spans are put in the order of their input positions. *)
transactionFromSpansSorted(rootSpan, childSpans, libName, libVersion, resourceTags) ==
    [trace      |-> [TraceID |-> rootSpan.TraceID, SpanID |-> rootSpan.SpanID],
     Spans      |-> [j \in 1..Len(childSpans) |->
                        childSpans[CHOOSE a \in 1..Len(childSpans) :
                            Cardinality({b \in 1..Len(childSpans) :
                                childSpans[b].idx <= childSpans[a].idx}) = j]],
     SdkName    |-> libName,
     SdkVersion |-> libVersion,
     Tags       |-> [key \in DOMAIN rootSpan.Tags \cup DOMAIN resourceTags |->
                        IF key \in DOMAIN resourceTags THEN resourceTags[key]
                        ELSE rootSpan.Tags[key]]]

transactionFromSpans(rootSpan, childSpans, libName, libVersion, resourceTags) ==
    [trace      |-> [TraceID |-> rootSpan.TraceID, SpanID |-> rootSpan.SpanID],
     Spans      |-> childSpans,
     SdkName    |-> libName,
     SdkVersion |-> libVersion,
     Tags       |-> [key \in DOMAIN rootSpan.Tags \cup DOMAIN resourceTags |->
                        IF key \in DOMAIN resourceTags THEN resourceTags[key]
                        ELSE rootSpan.Tags[key]]]

transactionFromTree(rtree) ==
    transactionFromSpans(rtree.rootSpan, rtree.childSpans, rtree.libraryName,
                         rtree.libraryVersion, rtree.resourceTags)

(* The orders in which a range over a Go map may visit a set of keys. *)
Orders(S) ==
    {f \in [1..Cardinality(S) -> S] : \A a, b \in 1..Cardinality(S) : a # b => f[a] # f[b]}

(* Without the loop over the orphan spans. *)
generateTransactionsTreesOnly(treeMap, orphans, order) ==
    [n \in 1..Len(order) |-> transactionFromTree(treeMap[order[n]])]

(* The loop over the trees stops one short. *)
generateTransactionsOneShort(treeMap, orphans, order) ==
    [n \in 1..(Len(order) - 1) |-> transactionFromTree(treeMap[order[n]])]
    \o
    [n \in 1..Len(orphans) |->
        transactionFromTree([rootSpan       |-> orphans[n].span,
                             childSpans     |-> <<>>,
                             libraryName    |-> orphans[n].libraryName,
                             libraryVersion |-> orphans[n].libraryVersion,
                             resourceTags   |-> orphans[n].resourceTags])]

(* The tree built for an orphan span gets no library and no resource tags. *)
generateTransactionsBareOrphans(treeMap, orphans, order) ==
    [n \in 1..Len(order) |-> transactionFromTree(treeMap[order[n]])]
    \o
    [n \in 1..Len(orphans) |->
        transactionFromTree([rootSpan       |-> orphans[n].span,
                             childSpans     |-> <<>>,
                             libraryName    |-> "",
                             libraryVersion |-> "",
                             resourceTags   |-> EmptyTags])]

generateTransactions(treeMap, orphans, order) ==
    [n \in 1..Len(order) |-> transactionFromTree(treeMap[order[n]])]
    \o
    [n \in 1..Len(orphans) |->
        transactionFromTree([rootSpan       |-> orphans[n].span,
                             childSpans     |-> <<>>,
                             libraryName    |-> orphans[n].libraryName,
                             libraryVersion |-> orphans[n].libraryVersion,
                             resourceTags   |-> orphans[n].resourceTags])]

-----------------------------------------------------------------------------
(* Attaching a span to the tree of its parent *)

(* The identifier of an attached span is not recorded. *)
AttachIdMapForget(m, span) == m

(* An attached span is mapped to its parent instead of to the root. *)
AttachIdMapToParent(m, span) == MapPut(m, span.SpanID, span.ParentSpanID)

(* An identifier that is already a key keeps its entry. *)
AttachIdMapKeepFirst(m, span) ==
    IF span.SpanID \in DOMAIN m THEN m ELSE MapPut(m, span.SpanID, m[span.ParentSpanID])

AttachIdMap(m, span) == MapPut(m, span.SpanID, m[span.ParentSpanID])

(* The child list is replaced instead of appended to. *)
AttachTreeMapOverwrite(treeMap, m, span) ==
    [treeMap EXCEPT ![m[span.ParentSpanID]].childSpans = <<span>>]

(* The span is put in front of the child list. *)
AttachTreeMapPrepend(treeMap, m, span) ==
    [treeMap EXCEPT ![m[span.ParentSpanID]].childSpans = <<span>> \o @]

(* The attachment also clears the library name of the tree. *)
AttachTreeMapClearLibrary(treeMap, m, span) ==
    [treeMap EXCEPT ![m[span.ParentSpanID]].childSpans = Append(@, span),
                    ![m[span.ParentSpanID]].libraryName = ""]

AttachTreeMap(treeMap, m, span) ==
    [treeMap EXCEPT ![m[span.ParentSpanID]].childSpans = Append(@, span)]

-----------------------------------------------------------------------------
(* Actions of pushTraceData *)

(* The trees are keyed by the trace identifier of their root span. *)
treeKeyByTrace(span) == span.TraceID

(* The key of the tree that a root span opens. *)
treeKey(span) == span.SpanID

(* Entry: an empty batch returns at once. *)
Enter ==
    /\ pc = "start"
    /\ IF Len(batch) = 0
       THEN /\ pc' = "done"
            /\ ret' = [droppedSpans |-> 0, err |-> "nil"]
       ELSE /\ pc' = "classify"
            /\ ret' = ret
    /\ UNCHANGED <<transportVars, fnCall, other, batch, k, idMap, rootSpanTreeMap, maybeOrphanSpans, orphanSpans,
                   prevLength, newOrphanSpans, i, passes, transactions>>

(* One iteration of the innermost loop of the classifier. *)
ClassifySpan ==
    /\ pc = "classify"
    /\ k <= Len(batch)
    /\ k' = k + 1
    /\ LET otelSpan == batch[k]
           sentrySpan == convertToSentrySpan(otelSpan, k)
           lib == libraryOf(otelSpan.library)
       IN  IF otelSpan.isNil
           THEN UNCHANGED <<idMap, rootSpanTreeMap, maybeOrphanSpans>>
           ELSE IF IsRootSpan(sentrySpan)
           THEN /\ rootSpanTreeMap' =
                       MapPut(rootSpanTreeMap, treeKey(sentrySpan),
                              [rootSpan       |-> sentrySpan,
                               childSpans     |-> <<>>,
                               libraryName    |-> lib.name,
                               libraryVersion |-> lib.version,
                               resourceTags   |-> otelSpan.resourceTags])
                /\ idMap' = MapPut(idMap, sentrySpan.SpanID, treeKey(sentrySpan))
                /\ UNCHANGED maybeOrphanSpans
           ELSE IF sentrySpan.ParentSpanID \in DOMAIN idMap
           THEN /\ idMap' = AttachIdMap(idMap, sentrySpan)
                /\ rootSpanTreeMap' = AttachTreeMap(rootSpanTreeMap, idMap, sentrySpan)
                /\ UNCHANGED maybeOrphanSpans
           ELSE /\ maybeOrphanSpans' =
                       Append(maybeOrphanSpans,
                              [span           |-> sentrySpan,
                               libraryName    |-> lib.name,
                               libraryVersion |-> lib.version,
                               resourceTags   |-> otelSpan.resourceTags])
                /\ UNCHANGED <<idMap, rootSpanTreeMap>>
    /\ UNCHANGED <<transportVars, fnCall, other, batch, pc, orphanSpans, prevLength, newOrphanSpans, i, passes,
                   transactions, ret>>

(* The first call passes the length of the worklist itself. *)
initialPrevLengthSame(worklist) == Len(worklist)

(* len(maybeOrphanSpans)+1, the prevLength of the first call. *)
initialPrevLength(worklist) == Len(worklist) + 1

(* The loops are over: call classifyAsOrphanSpans(maybeOrphanSpans, len+1, ...). *)
CallResolver ==
    /\ pc = "classify"
    /\ k > Len(batch)
    /\ orphanSpans' = maybeOrphanSpans
    /\ prevLength' = initialPrevLength(maybeOrphanSpans)
    /\ pc' = "resolve"
    /\ UNCHANGED <<transportVars, fnCall, other, batch, k, idMap, rootSpanTreeMap, maybeOrphanSpans, newOrphanSpans,
                   i, passes, transactions, ret>>

-----------------------------------------------------------------------------
(* Actions of classifyAsOrphanSpans *)

(* Without the no-progress test. *)
resolverStopsOnlyWhenEmpty(orphans, prev) == Len(orphans) = 0

(* The no-progress test also fires on the first call. *)
resolverStopsEarly(orphans, prev) == Len(orphans) = 0 \/ Len(orphans) <= prev

(* The resolver returns after its first pass. *)
resolverStopsAfterOnePass(orphans, prev) == Len(orphans) = 0 \/ passes >= 1

(* The stopping rule of the resolver. *)
resolverStops(orphans, prev) == Len(orphans) = 0 \/ Len(orphans) = prev

(* An unresolved span is put in front of the next worklist. *)
carryForwardInFront(worklist, orphan) == <<orphan>> \o worklist

(* An unresolved span is carried forward twice. *)
carryForwardTwice(worklist, orphan) == Append(Append(worklist, orphan), orphan)

(* newOrphanSpans = append(newOrphanSpans, orphan) *)
carryForward(worklist, orphan) == Append(worklist, orphan)

(* Function entry: return the worklist, or start a pass over it. *)
ResolverEntry ==
    /\ pc = "resolve"
    /\ IF resolverStops(orphanSpans, prevLength)
       THEN /\ pc' = "generate"
            /\ UNCHANGED <<newOrphanSpans, i, passes>>
       ELSE /\ pc' = "pass"
            /\ newOrphanSpans' = <<>>
            /\ i' = 1
            /\ passes' = passes + 1
    /\ UNCHANGED <<transportVars, fnCall, other, batch, k, idMap, rootSpanTreeMap, maybeOrphanSpans, orphanSpans,
                   prevLength, transactions, ret>>

(* One iteration of the range loop. *)
ResolverVisit ==
    /\ pc = "pass"
    /\ i <= Len(orphanSpans)
    /\ i' = i + 1
    /\ LET orphan == orphanSpans[i]
           span == orphan.span
       IN  IF span.ParentSpanID \in DOMAIN idMap
           THEN /\ idMap' = AttachIdMap(idMap, span)
                /\ rootSpanTreeMap' = AttachTreeMap(rootSpanTreeMap, idMap, span)
                /\ UNCHANGED newOrphanSpans
           ELSE /\ newOrphanSpans' = carryForward(newOrphanSpans, orphan)
                /\ UNCHANGED <<idMap, rootSpanTreeMap>>
    /\ UNCHANGED <<transportVars, fnCall, other, batch, pc, k, maybeOrphanSpans, orphanSpans, prevLength, passes,
                   transactions, ret>>

(* The recursive call classifyAsOrphanSpans(newOrphanSpans, len(orphanSpans), ...). *)
ResolverRecurse ==
    /\ pc = "pass"
    /\ i > Len(orphanSpans)
    /\ orphanSpans' = newOrphanSpans
    /\ prevLength' = Len(orphanSpans)
    /\ pc' = "resolve"
    /\ UNCHANGED <<transportVars, fnCall, other, batch, k, idMap, rootSpanTreeMap, maybeOrphanSpans, newOrphanSpans,
                   i, passes, transactions, ret>>

-----------------------------------------------------------------------------
(* Back in pushTraceData *)

GenerateTransactions ==
    /\ pc = "generate"
    /\ \E order \in Orders(DOMAIN rootSpanTreeMap) :
          transactions' = generateTransactions(rootSpanTreeMap, orphanSpans, order)
    /\ pc' = "send"
    /\ UNCHANGED <<transportVars, fnCall, other, batch, k, idMap, rootSpanTreeMap, maybeOrphanSpans, orphanSpans,
                   prevLength, newOrphanSpans, i, passes, ret>>

(* Every transaction is handed to the transport; the call returns (0, nil). *)
SendAndReturn ==
    /\ pc = "send"
    /\ pc' = "done"
    /\ ret' = [droppedSpans |-> 0, err |-> "nil"]
    /\ UNCHANGED <<transportVars, fnCall, other, batch, k, idMap, rootSpanTreeMap, maybeOrphanSpans, orphanSpans,
                   prevLength, newOrphanSpans, i, passes, transactions>>

-----------------------------------------------------------------------------
(* Two calls of pushTraceData at a time.  Every variable of a call is a local
   of pushTraceData or of classifyAsOrphanSpans, so a call that is not running
   is its frame, and the scheduler interleaves two calls by exchanging the
   running call with the waiting one. *)
NoCall == [pc |-> "none"]

Frame ==
    [batch |-> batch, pc |-> pc, k |-> k, idMap |-> idMap,
     rootSpanTreeMap |-> rootSpanTreeMap, maybeOrphanSpans |-> maybeOrphanSpans,
     orphanSpans |-> orphanSpans, prevLength |-> prevLength,
     newOrphanSpans |-> newOrphanSpans, i |-> i, passes |-> passes,
     transactions |-> transactions, ret |-> ret]

(* The identifier map is a package-level variable: the call that resumes finds
   what the other call left in it. *)
resumedIdMapShared(frame, current) == current

(* idMap is declared inside pushTraceData: the call that resumes finds its own. *)
resumedIdMap(frame, current) == frame.idMap

Switch ==
    /\ other.pc # "none"
    /\ other' = Frame
    /\ batch' = other.batch
    /\ pc' = other.pc
    /\ k' = other.k
    /\ idMap' = resumedIdMap(other, idMap)
    /\ rootSpanTreeMap' = other.rootSpanTreeMap
    /\ maybeOrphanSpans' = other.maybeOrphanSpans
    /\ orphanSpans' = other.orphanSpans
    /\ prevLength' = other.prevLength
    /\ newOrphanSpans' = other.newOrphanSpans
    /\ i' = other.i
    /\ passes' = other.passes
    /\ transactions' = other.transactions
    /\ ret' = other.ret
    /\ UNCHANGED <<transportVars, fnCall>>

Next ==
    \/ Enter
    \/ ClassifySpan
    \/ CallResolver
    \/ ResolverEntry
    \/ ResolverVisit
    \/ ResolverRecurse
    \/ GenerateTransactions
    \/ SendAndReturn

NextCalls ==
    \/ Next
    \/ Switch

(* One call after the other: the second call of pushTraceData starts when the
   first has returned, and the frame of the first is kept for comparison. *)
StartSecondCall ==
    /\ pc = "done"
    /\ other.pc = "start"
    /\ Switch

NextInTurn ==
    \/ Next
    \/ StartSecondCall

-----------------------------------------------------------------------------
(* Functions without state *)

NoFnCall == [pc |-> "idle"]

sentryStatusUnknown == "unknown"

(* The table of span statuses, whose first index is 0 in the program. *)
canonicalCodes ==
    <<"ok", "cancelled", sentryStatusUnknown, "invalid_argument", "deadline_exceeded",
      "not_found", "already_exists", "permission_denied", "resource_exhausted",
      "failed_precondition", "aborted", "out_of_range", "unimplemented", "internal",
      "unavailable", "data_loss", "unauthenticated">>

(* canonicalCodes[code]; an index outside the array is a run-time panic. *)
canonicalCodesAt(code) ==
    IF code + 1 \in DOMAIN canonicalCodes THEN canonicalCodes[code + 1]
    ELSE "panic: index out of range"

(* fmt.Sprintf("error code %d", code) *)
errorCodeMessage(code) == <<"error code ", code>>

(* The upper limit of the range test is one too far. *)
codeOutOfTableOffByOne(code) == code < 0 \/ code > Len(canonicalCodes)

(* code < 0 || int(code) >= len(canonicalCodes) *)
codeOutOfTable(code) == code < 0 \/ code >= Len(canonicalCodes)

statusFromSpanStatus(spanStatus) ==
    IF spanStatus.isNil THEN [status |-> "", message |-> ""]
    ELSE IF codeOutOfTable(spanStatus.code)
    THEN [status |-> sentryStatusUnknown, message |-> errorCodeMessage(spanStatus.code)]
    ELSE [status |-> canonicalCodesAt(spanStatus.code), message |-> spanStatus.message]

(* Span descriptors.  A string is the sequence of the non-empty pieces written
   to its builder, so that writing an empty piece leaves the string as it was. *)
Concat(pieces) == SelectSeq(pieces, LAMBDA piece : piece # "")

AttributeHTTPMethod == "http.method"
AttributeDBType == "db.type"
AttributeDBStatement == "db.statement"
AttributeRPCService == "rpc.service"
AttributeMessagingSystem == "messaging.system"
AttributeFaasTrigger == "faas.trigger"

AttributeKeys ==
    {AttributeHTTPMethod, AttributeDBType, AttributeDBStatement, AttributeRPCService,
     AttributeMessagingSystem, AttributeFaasTrigger}

(* An attribute value is a string or a value of another type. *)
AttributeValues ==
    {[isString |-> TRUE, string |-> "GET"],
     [isString |-> TRUE, string |-> "pubsub"],
     [isString |-> FALSE, string |-> ""]}

(* AttributeValue.StringVal: the string of a string value, "" for any other. *)
StringVal(value) == IF value.isString THEN value.string ELSE ""

AttributeMaps == UNION {[keys -> AttributeValues] : keys \in SUBSET AttributeKeys}

SpanKinds ==
    {"SpanKindUNSPECIFIED", "SpanKindINTERNAL", "SpanKindSERVER", "SpanKindCLIENT",
     "SpanKindPRODUCER", "SpanKindCONSUMER"}

SpanNames == {"/api/users/{user_id}"}

(* attrs.Get(key) reports ok. *)
Has(attrs, key) == key \in DOMAIN attrs

(* The database convention is looked for before the http convention. *)
generateSpanDescriptorsDbFirst(name, attrs, spanKind) ==
    IF Has(attrs, AttributeDBType)
    THEN [op |-> Concat(<<"db">>),
          description |->
              IF Has(attrs, AttributeDBStatement)
              THEN Concat(<<StringVal(attrs[AttributeDBStatement])>>)
              ELSE Concat(<<name>>)]
    ELSE IF Has(attrs, AttributeHTTPMethod)
    THEN [op |-> Concat(<<"http",
                          CASE spanKind = "SpanKindCLIENT" -> ".client"
                            [] spanKind = "SpanKindSERVER" -> ".server"
                            [] OTHER -> "">>),
          description |-> Concat(<<StringVal(attrs[AttributeHTTPMethod]), " ", name>>)]
    ELSE IF Has(attrs, AttributeRPCService)
    THEN [op |-> Concat(<<"rpc">>), description |-> Concat(<<name>>)]
    ELSE IF Has(attrs, AttributeMessagingSystem)
    THEN [op |-> Concat(<<"message">>), description |-> Concat(<<name>>)]
    ELSE IF Has(attrs, AttributeFaasTrigger)
    THEN [op |-> Concat(<<StringVal(attrs[AttributeFaasTrigger])>>),
          description |-> Concat(<<name>>)]
    ELSE [op |-> Concat(<<>>), description |-> Concat(<<name>>)]

generateSpanDescriptors(name, attrs, spanKind) ==
    IF Has(attrs, AttributeHTTPMethod)
    THEN [op |-> Concat(<<"http",
                          CASE spanKind = "SpanKindCLIENT" -> ".client"
                            [] spanKind = "SpanKindSERVER" -> ".server"
                            [] OTHER -> "">>),
          description |-> Concat(<<StringVal(attrs[AttributeHTTPMethod]), " ", name>>)]
    ELSE IF Has(attrs, AttributeDBType)
    THEN [op |-> Concat(<<"db">>),
          description |->
              IF Has(attrs, AttributeDBStatement)
              THEN Concat(<<StringVal(attrs[AttributeDBStatement])>>)
              ELSE Concat(<<name>>)]
    ELSE IF Has(attrs, AttributeRPCService)
    THEN [op |-> Concat(<<"rpc">>), description |-> Concat(<<name>>)]
    ELSE IF Has(attrs, AttributeMessagingSystem)
    THEN [op |-> Concat(<<"message">>), description |-> Concat(<<name>>)]
    ELSE IF Has(attrs, AttributeFaasTrigger)
    THEN [op |-> Concat(<<StringVal(attrs[AttributeFaasTrigger])>>),
          description |-> Concat(<<name>>)]
    ELSE [op |-> Concat(<<>>), description |-> Concat(<<name>>)]

(* A call of generateSpanDescriptors returns. *)
GenerateSpanDescriptorsReturn ==
    /\ fnCall.pc = "called"
    /\ fnCall.fn = "generateSpanDescriptors"
    /\ fnCall' = [fnCall EXCEPT
                      !.pc = "returned",
                      !.result = generateSpanDescriptors(fnCall.arg.name, fnCall.arg.attrs,
                                                         fnCall.arg.spanKind)]
    /\ UNCHANGED <<engineVars, transportVars>>

NextDescriptors == GenerateSpanDescriptorsReturn

(* SpanStore.  A *SentrySpan is nil or points to a span; two spans with the
   same timestamps are told apart by copy.  Reading a field through a nil
   pointer panics. *)
MaxStoreCalls == 3
MaxStamp == 1
MaxCopies == 2

NilSentrySpan == [isNil |-> TRUE, copy |-> 0, StartTimestamp |-> 0, Timestamp |-> 0]

SentrySpans ==
    {[isNil |-> FALSE, copy |-> copy, StartTimestamp |-> start, Timestamp |-> end] :
         copy \in 1..MaxCopies, start \in 0..MaxStamp, end \in 0..MaxStamp}

SentrySpanPointers == SentrySpans \cup {NilSentrySpan}

(* &SpanStore{} followed by init(cap): no spans, both bounds nil. *)
NewSpanStore ==
    [spans |-> <<>>, earliestSpan |-> NilSentrySpan, latestSpan |-> NilSentrySpan,
     panicked |-> FALSE]

(* The later of two spans with the same start replaces the earliest span. *)
updateEarliestOrEqual(s, span) ==
    IF Len(s.spans) = 0
    THEN [s EXCEPT !.earliestSpan = span]
    ELSE IF span.isNil \/ s.earliestSpan.isNil
    THEN [s EXCEPT !.panicked = TRUE]
    ELSE IF span.StartTimestamp <= s.earliestSpan.StartTimestamp
    THEN [s EXCEPT !.earliestSpan = span]
    ELSE s

(* _updateEarliest *)
updateEarliest(s, span) ==
    IF Len(s.spans) = 0
    THEN [s EXCEPT !.earliestSpan = span]
    ELSE IF span.isNil \/ s.earliestSpan.isNil
    THEN [s EXCEPT !.panicked = TRUE]
    ELSE IF span.StartTimestamp < s.earliestSpan.StartTimestamp
    THEN [s EXCEPT !.earliestSpan = span]
    ELSE s

(* _updateLatest *)
updateLatest(s, span) ==
    IF Len(s.spans) = 0
    THEN [s EXCEPT !.latestSpan = span]
    ELSE IF span.isNil \/ s.latestSpan.isNil
    THEN [s EXCEPT !.panicked = TRUE]
    ELSE IF span.Timestamp > s.latestSpan.Timestamp
    THEN [s EXCEPT !.latestSpan = span]
    ELSE s

(* updateStore; a panic in a step leaves what the steps before it wrote. *)
updateStore(s, span) ==
    LET s1 == updateEarliest(s, span)
        s2 == IF s1.panicked THEN s1 ELSE updateLatest(s1, span)
    IN  IF s2.panicked THEN s2 ELSE [s2 EXCEPT !.spans = Append(@, span)]

(* One more call of updateStore on the store; arg keeps the spans of the calls
   made so far, result the store. *)
UpdateStoreCall ==
    /\ fnCall.pc = "ready"
    /\ fnCall.fn = "updateStore"
    /\ Len(fnCall.arg) < MaxStoreCalls
    /\ \E span \in SentrySpanPointers :
          LET s == updateStore(fnCall.result, span)
          IN  fnCall' = [fnCall EXCEPT !.pc = IF s.panicked THEN "panicked" ELSE "ready",
                                       !.arg = Append(@, span),
                                       !.result = s]
    /\ UNCHANGED <<engineVars, transportVars>>

NextStore == UpdateStoreCall

(* A call of statusFromSpanStatus returns. *)
StatusFromSpanStatusReturn ==
    /\ fnCall.pc = "called"
    /\ fnCall.fn = "statusFromSpanStatus"
    /\ fnCall' = [fnCall EXCEPT !.pc = "returned",
                                !.result = statusFromSpanStatus(fnCall.arg)]
    /\ UNCHANGED <<engineVars, transportVars>>

NextStatus == StatusFromSpanStatusReturn

-----------------------------------------------------------------------------
(* Durations.  time.Duration is a signed 64-bit count of nanoseconds.  The
   model keeps its arithmetic and scales its sizes down: a duration is a
   signed count of ticks in DurationBits bits, and a second has Second ticks.
   Times are counts of ticks as well. *)
DurationBits == 8
Second == 2
MaxDuration == 2^(DurationBits - 1) - 1
MinDuration == -(2^(DurationBits - 1))
defaultRetryAfter == Second * 60
defaultBufferSize == 30

(* The product of two durations wraps around. *)
WrapDuration(x) == ((x - MinDuration) % 2^DurationBits) + MinDuration

(* Time.Sub returns the largest or the smallest duration when the difference
   does not fit. *)
SaturateDuration(x) ==
    IF x > MaxDuration THEN MaxDuration ELSE IF x < MinDuration THEN MinDuration ELSE x

(* The Retry-After header of a response: absent, an RFC1123 date (a whole
   number of seconds), an integer, or any other text. *)
NoHeader == [kind |-> "none", value |-> 0]
DateHeader(seconds) == [kind |-> "date", value |-> seconds]
IntHeader(n) == [kind |-> "int", value |-> n]
OtherHeader == [kind |-> "other", value |-> 0]

(* retryAfter(now, r) *)
retryAfter(nowTime, r) ==
    IF r.header.kind = "none" THEN defaultRetryAfter
    ELSE IF r.header.kind = "date" THEN SaturateDuration(r.header.value * Second - nowTime)
    ELSE IF r.header.kind = "int" THEN WrapDuration(Second * r.header.value)
    ELSE defaultRetryAfter

-----------------------------------------------------------------------------
(* The transport *)

StatusOK == 200
StatusTooManyRequests == 429

NewSentryTransport(size) ==
    [DSN |-> "nil", buffer |-> 0, disabledUntil |-> 0, wg |-> 0, start |-> FALSE,
     BufferSize |-> size]

NilResponse == [status |-> 0, header |-> NoHeader]

(* response records the last response that client.Do returned to the worker. *)
WorkerOff == [pc |-> "off", ch |-> 0, request |-> 0, response |-> NilResponse]
(* configured records that a call of Configure was given a DSN that parses. *)
ClientIdle ==
    [pc |-> "idle", request |-> 0, err |-> "none", sends |-> 0, configures |-> 0,
     configured |-> FALSE]
NoFlush ==
    [pc |-> "idle", deadline |-> 0, toolate |-> FALSE, c |-> FALSE, result |-> FALSE,
     pendingAtTimeout |-> 0]
NoRetryAfterCall ==
    [pc |-> "idle", now |-> 0, response |-> [status |-> StatusOK, header |-> NoHeader],
     duration |-> 0]

(* The responses that client.Do may return to the worker; "nil" is no response. *)
WorkerResponses ==
    {NilResponse,
     [status |-> StatusOK, header |-> NoHeader],
     [status |-> StatusTooManyRequests, header |-> NoHeader],
     [status |-> StatusTooManyRequests, header |-> IntHeader(1)]}

(* The transport is never taken to be disabled. *)
disabledNever == FALSE

(* time.Now().Before(t.disabledUntil) *)
disabled == now < t.disabledUntil

(* Configure(config): a DSN that does not parse is logged and nothing else
   happens; otherwise the DSN is set, a new buffer is made, and the worker is
   started if it was not started before. *)
Configure ==
    /\ client.pc = "idle"
    /\ client.configures < MaxConfigures
    /\ \E valid \in BOOLEAN :
          IF ~valid
          THEN /\ client' = [client EXCEPT !.configures = @ + 1]
               /\ UNCHANGED <<t, channels, worker>>
          ELSE /\ client' = [client EXCEPT !.configures = @ + 1, !.configured = TRUE]
               /\ t' = [t EXCEPT !.DSN = "set", !.buffer = Len(channels) + 1, !.start = TRUE]
               /\ channels' = Append(channels, [cap |-> t.BufferSize, queue |-> <<>>])
               /\ worker' = IF t.start THEN worker ELSE [worker EXCEPT !.pc = "spawned"]
    /\ UNCHANGED <<engineVars, fnCall, flush, now, retryAfterCall>>

(* The DSN test is left out. *)
dsnIsNilNever(tr) == FALSE

(* t.DSN == nil *)
dsnIsNil(tr) == tr.DSN = "nil"

(* SendTransaction up to the request: the DSN test, the disabled test and
   getRequest, which fails when the transaction cannot be encoded.  No
   transaction is sent once Flush has been called. *)
SendCheck ==
    /\ client.pc = "idle"
    /\ flush.pc = "idle"
    /\ client.sends < MaxSends
    /\ \E encodable \in BOOLEAN :
          client' =
              IF dsnIsNil(t)
              THEN [client EXCEPT !.sends = @ + 1, !.err = "invalid DSN"]
              ELSE IF disabled
              THEN [client EXCEPT !.sends = @ + 1, !.err = "disabled"]
              ELSE IF ~encodable
              THEN [client EXCEPT !.sends = @ + 1, !.err = "encode"]
              ELSE [client EXCEPT !.sends = @ + 1, !.err = "none", !.pc = "add",
                                  !.request = client.sends + 1]
    /\ UNCHANGED <<engineVars, fnCall, t, channels, worker, flush, now, retryAfterCall>>

(* t.wg.Add(1) *)
SendAdd ==
    /\ client.pc = "add"
    /\ t' = [t EXCEPT !.wg = @ + 1]
    /\ client' = [client EXCEPT !.pc = "select"]
    /\ UNCHANGED <<engineVars, fnCall, channels, worker, flush, now, retryAfterCall>>

(* The send case proceeds with one request more than the capacity. *)
canSendOneMore(ch) == Len(ch.queue) <= ch.cap

(* case t.buffer <- request: a send on a buffered channel proceeds when the
   channel holds fewer requests than its capacity. *)
canSend(ch) == Len(ch.queue) < ch.cap

(* The default case of the select does not call Done. *)
doneOnFullForgotten(wg) == wg

(* t.wg.Done() in the default case of the select. *)
doneOnFull(wg) == wg - 1

(* The select: the request goes into the buffer if it has room; otherwise the
   pending count is given back and the event is dropped. *)
SendSelect ==
    /\ client.pc = "select"
    /\ IF canSend(channels[t.buffer])
       THEN /\ channels' = [channels EXCEPT ![t.buffer].queue = Append(@, client.request)]
            /\ client' = [client EXCEPT !.pc = "idle", !.err = "nil"]
            /\ UNCHANGED t
       ELSE /\ t' = [t EXCEPT !.wg = doneOnFull(@)]
            /\ client' = [client EXCEPT !.pc = "idle", !.err = "full"]
            /\ UNCHANGED channels
    /\ UNCHANGED <<engineVars, fnCall, worker, flush, now, retryAfterCall>>

(* The worker starts to range over the channel that t.buffer names. *)
WorkerRange ==
    /\ worker.pc = "spawned"
    /\ worker' = [worker EXCEPT !.pc = "range", !.ch = t.buffer]
    /\ UNCHANGED <<engineVars, fnCall, t, channels, client, flush, now, retryAfterCall>>

(* The worker receives a request; while the transport is disabled it drops it. *)
WorkerReceive ==
    /\ worker.pc = "range"
    /\ channels[worker.ch].queue # <<>>
    /\ channels' = [channels EXCEPT ![worker.ch].queue = Tail(@)]
    /\ IF disabled
       THEN /\ t' = [t EXCEPT !.wg = @ - 1]
            /\ UNCHANGED worker
       ELSE /\ worker' = [worker EXCEPT !.pc = "do", !.request = Head(channels[worker.ch].queue)]
            /\ UNCHANGED t
    /\ UNCHANGED <<engineVars, fnCall, client, flush, now, retryAfterCall>>

(* client.Do returns; a 429 disables the transport; the request is done. *)
WorkerDo ==
    /\ worker.pc = "do"
    /\ \E response \in WorkerResponses :
          /\ t' = [t EXCEPT !.wg = @ - 1,
                            !.disabledUntil =
                                IF response.status = StatusTooManyRequests
                                THEN now + retryAfter(now, response)
                                ELSE @]
          /\ worker' = [worker EXCEPT !.pc = "range", !.request = 0, !.response = response]
    /\ UNCHANGED <<engineVars, fnCall, channels, client, flush, now, retryAfterCall>>

(* Flush(timeout): the timer is set and the goroutine that waits for the
   pending count is started. *)
FlushCall ==
    /\ flush.pc = "idle"
    /\ client.pc = "idle"
    /\ \E timeout \in 0..(MaxTime - now) :
          flush' = [flush EXCEPT !.pc = "select", !.deadline = now + timeout]
    /\ UNCHANGED <<engineVars, fnCall, t, channels, worker, client, now, retryAfterCall>>

(* The timer of time.After sends on toolate; the pending count of that moment
   is kept for the record. *)
TimerFires ==
    /\ flush.pc = "select"
    /\ ~flush.toolate
    /\ now >= flush.deadline
    /\ flush' = [flush EXCEPT !.toolate = TRUE, !.pendingAtTimeout = t.wg]
    /\ UNCHANGED <<engineVars, fnCall, t, channels, worker, client, now, retryAfterCall>>

(* t.wg.Wait() returns and the goroutine closes c. *)
WaiterCloses ==
    /\ flush.pc \in {"select", "returned"}
    /\ ~flush.c
    /\ t.wg = 0
    /\ flush' = [flush EXCEPT !.c = TRUE]
    /\ UNCHANGED <<engineVars, fnCall, t, channels, worker, client, now, retryAfterCall>>

(* Flush always reports that everything was flushed. *)
flushResultsAlwaysTrue(cClosed, timerFired) == {TRUE}

(* The results the select of Flush may choose: a case that can proceed. *)
flushResults(cClosed, timerFired) ==
    (IF cClosed THEN {TRUE} ELSE {}) \cup (IF timerFired THEN {FALSE} ELSE {})

FlushReturn ==
    /\ flush.pc = "select"
    /\ \E result \in flushResults(flush.c, flush.toolate) :
          flush' = [flush EXCEPT !.pc = "returned", !.result = result]
    /\ UNCHANGED <<engineVars, fnCall, t, channels, worker, client, now, retryAfterCall>>

Tick ==
    /\ now < MaxTime
    /\ now' = now + 1
    /\ UNCHANGED <<engineVars, fnCall, t, channels, worker, client, flush, retryAfterCall>>

NextTransport ==
    \/ Configure
    \/ SendCheck
    \/ SendAdd
    \/ SendSelect
    \/ WorkerRange
    \/ WorkerReceive
    \/ WorkerDo
    \/ FlushCall
    \/ TimerFires
    \/ WaiterCloses
    \/ FlushReturn
    \/ Tick

(* The contexts handed to the shutdown hook: without a deadline, or with one
   that may already have passed. *)
Contexts ==
    {[ok |-> FALSE, deadline |-> 0]}
        \cup {[ok |-> TRUE, deadline |-> d] : d \in 0..MaxTime}

(* The hook flushes with one second whatever the context says. *)
shutdownTimeoutAlwaysSecond(ctx, nowTime) == Second

(* The timeout the shutdown hook hands to Flush. *)
shutdownTimeout(ctx, nowTime) ==
    IF ctx.ok THEN ctx.deadline - nowTime ELSE Second

(* The hook reports a Flush that timed out as an error. *)
shutdownResultStrict(allEventsFlushed) ==
    [err |-> IF allEventsFlushed THEN "nil" ELSE "timeout", logged |-> ~allEventsFlushed]

(* What the shutdown hook returns, and whether it logged the timeout. *)
shutdownResult(allEventsFlushed) ==
    [err |-> "nil", logged |-> ~allEventsFlushed]

(* The shutdown hook is called with ctx and calls transport.Flush. *)
ShutdownCall ==
    /\ fnCall = NoFnCall
    /\ flush.pc = "idle"
    /\ client.pc = "idle"
    /\ \E ctx \in Contexts :
          /\ fnCall' = [pc |-> "called", fn |-> "shutdown", arg |-> ctx,
                        result |-> shutdownResult(TRUE)]
          /\ flush' = [flush EXCEPT !.pc = "select",
                                    !.deadline = now + shutdownTimeout(ctx, now)]
    /\ UNCHANGED <<engineVars, t, channels, worker, client, now, retryAfterCall>>

(* Flush has returned; the hook logs a timeout and returns. *)
ShutdownReturn ==
    /\ fnCall.pc = "called"
    /\ fnCall.fn = "shutdown"
    /\ flush.pc = "returned"
    /\ fnCall' = [fnCall EXCEPT !.pc = "returned", !.result = shutdownResult(flush.result)]
    /\ UNCHANGED <<engineVars, transportVars>>

NextShutdown ==
    \/ NextTransport
    \/ ShutdownCall
    \/ ShutdownReturn

(* A call of retryAfter returns. *)
RetryAfterReturn ==
    /\ retryAfterCall.pc = "called"
    /\ retryAfterCall' =
          [retryAfterCall EXCEPT
              !.pc = "returned",
              !.duration = retryAfter(retryAfterCall.now, retryAfterCall.response)]
    /\ UNCHANGED <<engineVars, fnCall, t, channels, worker, client, flush, now>>

NextRetryAfter == RetryAfterReturn

(* The transport and the engine before any call. *)
TransportIdle ==
    /\ t = NewSentryTransport(defaultBufferSize)
    /\ channels = <<>>
    /\ worker = WorkerOff
    /\ client = ClientIdle
    /\ flush = NoFlush
    /\ now = 0
    /\ retryAfterCall = NoRetryAfterCall
    /\ fnCall = NoFnCall

EngineIdle ==
    /\ batch = <<>>
    /\ pc = "start"
    /\ k = 1
    /\ idMap = EmptyMap
    /\ rootSpanTreeMap = EmptyMap
    /\ maybeOrphanSpans = <<>>
    /\ orphanSpans = <<>>
    /\ prevLength = 0
    /\ newOrphanSpans = <<>>
    /\ i = 1
    /\ passes = 0
    /\ transactions = <<>>
    /\ ret = [droppedSpans |-> 0, err |-> "none"]
    /\ other = [pc |-> "none"]

(* A new transport whose BufferSize field was set before Configure. *)
InitTransport ==
    /\ EngineIdle
    /\ \E size \in 1..MaxBufferSize : t = NewSentryTransport(size)
    /\ channels = <<>>
    /\ worker = WorkerOff
    /\ client = ClientIdle
    /\ flush = NoFlush
    /\ now = 0
    /\ retryAfterCall = NoRetryAfterCall
    /\ fnCall = NoFnCall

(* The status codes are 32-bit integers. *)
MaxInt32 == 2147483647
MinInt32 == -MaxInt32 - 1
StatusCodes == (-MaxCode)..MaxCode \cup {MinInt32, MaxInt32}
StatusMessages == {"", "message", "other message"}

(* The arguments of statusFromSpanStatus: a nil status, or a code and a message. *)
SpanStatuses ==
    {[isNil |-> TRUE, code |-> 0, message |-> ""]}
        \cup {[isNil |-> FALSE, code |-> code, message |-> message] :
                  code \in StatusCodes, message \in StatusMessages}

InitStatus ==
    /\ EngineIdle
    /\ t = NewSentryTransport(defaultBufferSize)
    /\ channels = <<>>
    /\ worker = WorkerOff
    /\ client = ClientIdle
    /\ flush = NoFlush
    /\ now = 0
    /\ retryAfterCall = NoRetryAfterCall
    /\ \E spanStatus \in SpanStatuses :
          fnCall = [pc |-> "called", fn |-> "statusFromSpanStatus", arg |-> spanStatus,
                    result |-> [status |-> "", message |-> ""]]

InitDescriptors ==
    /\ EngineIdle
    /\ t = NewSentryTransport(defaultBufferSize)
    /\ channels = <<>>
    /\ worker = WorkerOff
    /\ client = ClientIdle
    /\ flush = NoFlush
    /\ now = 0
    /\ retryAfterCall = NoRetryAfterCall
    /\ \E name \in SpanNames, attrs \in AttributeMaps, spanKind \in SpanKinds :
          fnCall = [pc |-> "called", fn |-> "generateSpanDescriptors",
                    arg |-> [name |-> name, attrs |-> attrs, spanKind |-> spanKind],
                    result |-> [op |-> <<>>, description |-> <<>>]]

InitStore ==
    /\ EngineIdle
    /\ t = NewSentryTransport(defaultBufferSize)
    /\ channels = <<>>
    /\ worker = WorkerOff
    /\ client = ClientIdle
    /\ flush = NoFlush
    /\ now = 0
    /\ retryAfterCall = NoRetryAfterCall
    /\ fnCall = [pc |-> "ready", fn |-> "updateStore", arg |-> <<>>, result |-> NewSpanStore]

(* The arguments of retryAfter: a time and a response whose Retry-After header
   is absent, a date, an integer of the width of a duration, or other text. *)
RetryAfterHeaders ==
    {NoHeader, OtherHeader}
        \cup {DateHeader(seconds) : seconds \in 0..MaxDuration}
        \cup {IntHeader(n) : n \in MinDuration..MaxDuration}

InitRetryAfter ==
    /\ EngineIdle
    /\ t = NewSentryTransport(defaultBufferSize)
    /\ channels = <<>>
    /\ worker = WorkerOff
    /\ client = ClientIdle
    /\ flush = NoFlush
    /\ now = 0
    /\ fnCall = NoFnCall
    /\ \E nowTime \in 0..MaxTime, header \in RetryAfterHeaders :
          retryAfterCall =
              [pc |-> "called", now |-> nowTime,
               response |-> [status |-> StatusTooManyRequests, header |-> header],
               duration |-> 0]

-----------------------------------------------------------------------------
(* Batches *)

DefaultLibrary == [isNil |-> FALSE, name |-> "lib", version |-> "1"]

DefaultTrace == 11

otelSpan(id, parent, tags, resourceTags, library) ==
    [isNil |-> FALSE, TraceID |-> DefaultTrace, SpanID |-> id, ParentSpanID |-> parent,
     Tags |-> tags, resourceTags |-> resourceTags, library |-> library]

inTrace(span, trace) == [span EXCEPT !.TraceID = trace]

(* A span for which IsNil() is true; only its resource and library context exist. *)
NilSpan ==
    [isNil |-> TRUE, TraceID |-> DefaultTrace, SpanID |-> NilBytes, ParentSpanID |-> NilBytes,
     Tags |-> EmptyTags, resourceTags |-> EmptyTags, library |-> DefaultLibrary]

(* General batches: duplicate identifiers and nil spans included; parents in
   both encodings of "no parent", any identifier, or one that no span has.
   The engine only compares identifiers for equality, so batches are taken up
   to renaming: the identifiers appear in the order 1, 2, 3, ... of their
   first use. *)
GeneralSpans ==
    {NilSpan} \cup
    {otelSpan(id, parent, EmptyTags, EmptyTags, DefaultLibrary) :
        id \in 1..NumIds, parent \in {NilBytes, ZeroBytes} \cup 1..(NumIds + 1)}

IdsInOrderOfFirstUse(b) ==
    \A n \in DOMAIN b :
        ~b[n].isNil =>
            \/ \E p \in 1..(n - 1) : ~b[p].isNil /\ b[p].SpanID = b[n].SpanID
            \/ b[n].SpanID = 1 + Cardinality({b[p].SpanID : p \in {q \in 1..(n - 1) : ~b[q].isNil}})

GeneralBatches(m) == {b \in [1..m -> GeneralSpans] : IdsInOrderOfFirstUse(b)}

(* Batches with unique identifiers, up to renaming: the n-th span has the
   identifier n; the parents range over "no parent", every identifier of the
   batch and one that no span has. *)
UniqueBatch(m, parents) ==
    [n \in 1..m |-> otelSpan(n, parents[n], EmptyTags, EmptyTags, DefaultLibrary)]

(* The fixture spans of the tests, in the order of their declaration; the
   orphan's parent is an identifier that no fixture span has. *)
Fixture ==
    <<[name |-> "rootSpan1",       id |-> 1, parent |-> NoParent],
      [name |-> "childSpan1",      id |-> 2, parent |-> 1],
      [name |-> "childChildSpan1", id |-> 3, parent |-> 2],
      [name |-> "childSpan2",      id |-> 4, parent |-> 1],
      [name |-> "orphanSpan",      id |-> 5, parent |-> 8],
      [name |-> "rootSpan2",       id |-> 6, parent |-> NoParent],
      [name |-> "root2childSpan",  id |-> 7, parent |-> 6]>>

FixtureBatch(order) ==
    [n \in 1..Len(Fixture) |->
        otelSpan(Fixture[order[n]].id, Fixture[order[n]].parent, EmptyTags, EmptyTags,
                 DefaultLibrary)]

(* Batches that vary the tags of the spans and of their resources. *)
SpanTagMaps == TagMapsOver({"span"})
ResourceTagMaps == TagMapsOver({"resource"})

MetaBatch(m, parents, tags, resTags) ==
    [n \in 1..m |-> otelSpan(n, parents[n], tags[n], resTags[n], DefaultLibrary)]

(* Batches with unique span identifiers whose spans are in one of two traces. *)
TraceIds == {11, 12}

TraceBatch(m, parents, traces) ==
    [n \in 1..m |->
        inTrace(otelSpan(n, parents[n], EmptyTags, EmptyTags, DefaultLibrary), traces[n])]

(* Batches with unique span identifiers whose spans arrive in one of two
   groups, each with resource tags and an instrumentation library of its own. *)
Groups ==
    {[library |-> [isNil |-> FALSE, name |-> "libA", version |-> "1"],
      resourceTags |-> [key \in TagKeys |-> "resourceA"]],
     [library |-> [isNil |-> FALSE, name |-> "libB", version |-> "2"],
      resourceTags |-> [key \in TagKeys |-> "resourceB"]]}

GroupBatch(m, parents, groups) ==
    [n \in 1..m |->
        otelSpan(n, parents[n], EmptyTags, groups[n].resourceTags, groups[n].library)]

(* Batches with unique span identifiers whose spans arrive under libraries that
   are nil, lack a name or a version, or have both. *)
MaxLibrarySpans == 2

NilLibrary == [isNil |-> TRUE, name |-> "", version |-> ""]

Libraries ==
    {NilLibrary}
        \cup {[isNil |-> FALSE, name |-> name, version |-> version] :
                  name \in {"", "libA"}, version \in {"", "1"}}

LibraryBatch(m, parents, libraries) ==
    [n \in 1..m |-> otelSpan(n, parents[n], EmptyTags, EmptyTags, libraries[n])]

(* The state in which pushTraceData is called with the batch b. *)
InitWith(b) ==
    /\ batch = b
    /\ pc = "start"
    /\ k = 1
    /\ idMap = EmptyMap
    /\ rootSpanTreeMap = EmptyMap
    /\ maybeOrphanSpans = <<>>
    /\ orphanSpans = <<>>
    /\ prevLength = 0
    /\ newOrphanSpans = <<>>
    /\ i = 1
    /\ passes = 0
    /\ transactions = <<>>
    /\ ret = [droppedSpans |-> 0, err |-> "none"]
    /\ other = NoCall
    /\ TransportIdle

(* Two calls, each with a batch of its own; the batches use the same
   identifiers, so a span of one may name a span of the other as its parent. *)
CallIds == {1, 2}

CallSpans ==
    {otelSpan(id, parent, EmptyTags, EmptyTags, DefaultLibrary) :
        id \in CallIds, parent \in {ZeroBytes} \cup CallIds}

StartFrame(b) ==
    [batch |-> b, pc |-> "start", k |-> 1, idMap |-> EmptyMap,
     rootSpanTreeMap |-> EmptyMap, maybeOrphanSpans |-> <<>>, orphanSpans |-> <<>>,
     prevLength |-> 0, newOrphanSpans |-> <<>>, i |-> 1, passes |-> 0,
     transactions |-> <<>>, ret |-> [droppedSpans |-> 0, err |-> "none"]]

InitCalls ==
    \E m1, m2 \in 0..MaxCallSpans :
        \E b1 \in [1..m1 -> CallSpans], b2 \in [1..m2 -> CallSpans] :
            /\ batch = b1
            /\ pc = "start"
            /\ k = 1
            /\ idMap = EmptyMap
            /\ rootSpanTreeMap = EmptyMap
            /\ maybeOrphanSpans = <<>>
            /\ orphanSpans = <<>>
            /\ prevLength = 0
            /\ newOrphanSpans = <<>>
            /\ i = 1
            /\ passes = 0
            /\ transactions = <<>>
            /\ ret = [droppedSpans |-> 0, err |-> "none"]
            /\ other = StartFrame(b2)
            /\ TransportIdle

(* The batch b in another order. *)
Permuted(b, order) == [n \in 1..Len(b) |-> b[order[n]]]

(* Two calls, the second with the spans of the first in another order. *)
InitOrders ==
    \E m \in 0..MaxOrderSpans :
        \E parents \in [1..m -> 0..(m + 1)], order \in Orders(1..m) :
            /\ batch = UniqueBatch(m, parents)
            /\ pc = "start"
            /\ k = 1
            /\ idMap = EmptyMap
            /\ rootSpanTreeMap = EmptyMap
            /\ maybeOrphanSpans = <<>>
            /\ orphanSpans = <<>>
            /\ prevLength = 0
            /\ newOrphanSpans = <<>>
            /\ i = 1
            /\ passes = 0
            /\ transactions = <<>>
            /\ ret = [droppedSpans |-> 0, err |-> "none"]
            /\ other = StartFrame(Permuted(UniqueBatch(m, parents), order))
            /\ TransportIdle

InitTrace ==
    \E m \in 0..MaxTraceSpans :
        \E parents \in [1..m -> 0..(m + 1)], traces \in [1..m -> TraceIds] :
            InitWith(TraceBatch(m, parents, traces))

InitGroups ==
    \E m \in 0..MaxGroupSpans :
        \E parents \in [1..m -> 0..(m + 1)], groups \in [1..m -> Groups] :
            InitWith(GroupBatch(m, parents, groups))

InitLibraries ==
    \E m \in 0..MaxLibrarySpans :
        \E parents \in [1..m -> 0..(m + 1)], libraries \in [1..m -> Libraries] :
            InitWith(LibraryBatch(m, parents, libraries))

Init ==
    \E m \in 0..MaxSpans : \E b \in GeneralBatches(m) : InitWith(b)

InitUnique ==
    \E m \in 0..MaxUnique : \E parents \in [1..m -> 0..(m + 1)] :
        InitWith(UniqueBatch(m, parents))

InitFixture ==
    \E order \in Orders(1..Len(Fixture)) : InitWith(FixtureBatch(order))

InitMeta ==
    \E m \in 0..MaxMeta :
        \E parents \in [1..m -> 0..(m + 1)], tags \in [1..m -> SpanTagMaps],
           resTags \in [1..m -> ResourceTagMaps] :
            InitWith(MetaBatch(m, parents, tags, resTags))

Spec == Init /\ [][Next]_vars
SpecUnique == InitUnique /\ [][Next]_vars
SpecFixture == InitFixture /\ [][Next]_vars
SpecMeta == InitMeta /\ [][Next]_vars
SpecCalls == InitCalls /\ [][NextCalls]_vars
SpecOrders == InitOrders /\ [][NextInTurn]_vars
SpecTrace == InitTrace /\ [][Next]_vars
SpecGroups == InitGroups /\ [][Next]_vars
SpecLibraries == InitLibraries /\ [][Next]_vars
SpecTransport == InitTransport /\ [][NextTransport]_vars
SpecRetryAfter == InitRetryAfter /\ [][NextRetryAfter]_vars
SpecStatus == InitStatus /\ [][NextStatus]_vars
SpecStore == InitStore /\ [][NextStore]_vars
SpecDescriptors == InitDescriptors /\ [][NextDescriptors]_vars

(* pushTraceData runs to completion: no step of it blocks or yields. *)
FairSpecUnique == SpecUnique /\ WF_vars(Next)
FairSpec == Spec /\ WF_vars(Next)

(* The worker goroutine is scheduled whenever it can run, client.Do returns,
   and a call of SendTransaction that has started runs to its end. *)
SpecShutdown == InitTransport /\ [][NextShutdown]_vars

FairSpecTransport ==
    /\ SpecTransport
    /\ WF_vars(WorkerRange) /\ WF_vars(WorkerReceive) /\ WF_vars(WorkerDo)
    /\ WF_vars(SendAdd) /\ WF_vars(SendSelect)

-----------------------------------------------------------------------------
(* Vocabulary of the properties *)

NonNil == {n \in 1..Len(batch) : ~batch[n].isNil}

(* The n-th span of the batch as the classifier sees it. *)
Converted(n) == convertToSentrySpan(batch[n], n)

NonRoots == {n \in NonNil : ~IsRootSpan(Converted(n))}

BatchIds == {batch[n].SpanID : n \in NonNil}

UniqueIds == \A a, b \in NonNil : a # b => batch[a].SpanID # batch[b].SpanID

Classifying == pc = "classify"
Resolving == pc \in {"resolve", "pass"}
Resolved == pc \in {"generate", "send", "done"}
Generated == pc \in {"send", "done"}

Trees == DOMAIN rootSpanTreeMap
ChildIdx(r) == [j \in 1..Len(rootSpanTreeMap[r].childSpans) |-> rootSpanTreeMap[r].childSpans[j].idx]
Range(f) == {f[x] : x \in DOMAIN f}

(* The places that hold the span of batch position n. *)
RootPlaces(n) == {r \in Trees : rootSpanTreeMap[r].rootSpan.idx = n}
ChildPlaces(n) ==
    {<<r, j>> \in Trees \X (1..Len(batch)) :
        j <= Len(rootSpanTreeMap[r].childSpans) /\ rootSpanTreeMap[r].childSpans[j].idx = n}
OrphanPlaces(n) == {j \in 1..Len(orphanSpans) : orphanSpans[j].span.idx = n}

(* The transaction generated for the j-th span of the resolver's remainder. *)
OrphanTransaction(j) == transactions[Cardinality(Trees) + j]

-----------------------------------------------------------------------------
(* C1: single ownership.  In a batch with unique span identifiers, once the
   resolver has returned, every non-nil span is held in exactly one place: as
   the root of one tree, as one entry of one child list, or as one entry of the
   remainder; and after generation every entry of the remainder is the root of
   a transaction of its own that has no spans. *)
C1_SingleOwnership ==
    (UniqueIds /\ Resolved) =>
        /\ \A n \in NonNil :
              Cardinality(RootPlaces(n)) + Cardinality(ChildPlaces(n))
                  + Cardinality(OrphanPlaces(n)) = 1
        /\ Generated =>
              \A j \in 1..Len(orphanSpans) :
                 /\ OrphanTransaction(j).trace.SpanID = orphanSpans[j].span.SpanID
                 /\ OrphanTransaction(j).Spans = <<>>

(* A root, a child attached to it and a span that never resolved. *)
C1_Witness ==
    /\ UniqueIds /\ pc = "done"
    /\ \E n \in NonNil : RootPlaces(n) # {}
    /\ \E n \in NonNil : ChildPlaces(n) # {}
    /\ \E n \in NonNil : OrphanPlaces(n) # {}

(* C2: transitive resolution under any input order.  In a batch with unique
   span identifiers, every span whose chain of parent identifiers reaches a
   root span of the batch is, once the resolver has returned, in the child
   list of that root's tree. *)
SpanWithId(id) == CHOOSE n \in NonNil : batch[n].SpanID = id

RECURSIVE ChainRoot(_, _)
(* The position of the root span that the parent chain of span n reaches
   within fuel steps, or 0 when it reaches none. *)
ChainRoot(n, fuel) ==
    LET parent == Converted(n).ParentSpanID
    IN  IF parent = NoParent THEN n
        ELSE IF fuel = 0 \/ parent \notin BatchIds THEN 0
        ELSE ChainRoot(SpanWithId(parent), fuel - 1)

C2_TransitiveResolution ==
    (UniqueIds /\ Resolved) =>
        \A n \in NonRoots :
            LET r == ChainRoot(n, Len(batch))
            IN  r # 0 => /\ batch[r].SpanID \in Trees
                         /\ n \in Range(ChildIdx(batch[r].SpanID))

(* The chain root -> A -> B supplied as [B, A, root]: the tree of root holds A
   and B, attached by two resolver passes. *)
C2_Witness ==
    /\ pc = "done"
    /\ Len(batch) = 3
    /\ batch[1].SpanID = 1 /\ batch[1].ParentSpanID = 2
    /\ batch[2].SpanID = 2 /\ batch[2].ParentSpanID = 3
    /\ batch[3].SpanID = 3 /\ batch[3].ParentSpanID = ZeroBytes
    /\ ChildIdx(3) = <<2, 1>>
    /\ passes = 2

(* C3: true orphan promotion.  A non-root span whose parent identifier is the
   identifier of no span of the batch is never in a child list, is in the
   remainder the resolver returns, and is emitted as a transaction rooted at
   it that has no spans. *)
TrueOrphans == {n \in NonRoots : Converted(n).ParentSpanID \notin BatchIds}

C3_OrphanPromotion ==
    \A n \in TrueOrphans :
        /\ ChildPlaces(n) = {}
        /\ Resolved => Cardinality(OrphanPlaces(n)) = 1
        /\ Generated =>
              \A j \in OrphanPlaces(n) :
                 /\ Len(transactions) >= Cardinality(Trees) + j
                 /\ OrphanTransaction(j).trace.SpanID = batch[n].SpanID
                 /\ OrphanTransaction(j).Spans = <<>>

(* A true orphan next to a tree that has a child. *)
C3_Witness ==
    /\ pc = "done"
    /\ TrueOrphans # {}
    /\ \E r \in Trees : Len(rootSpanTreeMap[r].childSpans) > 0
    /\ \E n \in TrueOrphans : \E j \in OrphanPlaces(n) :
          OrphanTransaction(j).trace.SpanID = batch[n].SpanID

(* C4: transaction count.  The transactions are one per entry of the tree map
   followed by one per span of the remainder: as many as both together, every
   tree exactly once and the spans of the remainder in their order. *)
C4_TransactionCount ==
    Generated =>
        /\ Len(transactions) = Cardinality(Trees) + Len(orphanSpans)
        /\ \A r \in Trees :
              Cardinality({n \in 1..Cardinality(Trees) :
                              /\ n <= Len(transactions)
                              /\ transactions[n].trace.SpanID = r}) = 1
        /\ \A j \in 1..Len(orphanSpans) :
              /\ Cardinality(Trees) + j <= Len(transactions)
              /\ OrphanTransaction(j).trace.SpanID = orphanSpans[j].span.SpanID

(* Two trees and one span that never resolved: three transactions. *)
C4_Witness ==
    /\ pc = "done"
    /\ Cardinality(Trees) = 2
    /\ Len(orphanSpans) = 1
    /\ Len(transactions) = 3

(* C5: resource tags fill gaps and never override.  In the transaction built
   from a tree, every tag of the root span keeps the root span's value, and
   the resource tags supply the keys that the root span does not have. *)
TreeTransaction(r) ==
    transactions[CHOOSE n \in 1..Cardinality(Trees) : transactions[n].trace.SpanID = r]

C5_ResourceTagsFillGaps ==
    (UniqueIds /\ Generated) =>
        \A r \in Trees :
            LET rootTags == rootSpanTreeMap[r].rootSpan.Tags
                resourceTags == rootSpanTreeMap[r].resourceTags
                tags == TreeTransaction(r).Tags
            IN  /\ DOMAIN tags = DOMAIN rootTags \cup DOMAIN resourceTags
                /\ \A key \in DOMAIN rootTags : tags[key] = rootTags[key]
                /\ \A key \in DOMAIN resourceTags \ DOMAIN rootTags :
                      tags[key] = resourceTags[key]

(* C6: termination bound.  The resolver starts at most as many passes as the
   worklist it was called with has spans, and pushTraceData returns. *)
C6_TerminationBound ==
    /\ [](passes <= Len(maybeOrphanSpans))
    /\ <>(pc = "done")

(* A worklist of three spans chained in reverse order: three passes, each of
   which attaches one span. *)
C6_Witness ==
    /\ pc = "done"
    /\ Len(maybeOrphanSpans) = 3
    /\ passes = 3
    /\ Len(orphanSpans) = 0

(* C7: identifier-map invariant.  Every key of the tree map is a key of the
   identifier map mapped to itself, and the identifier of every span in a
   child list is a key of the identifier map mapped to the tree's root. *)
IdMapInvariant ==
    \A r \in Trees :
        /\ r \in DOMAIN idMap
        /\ idMap[r] = r
        /\ \A j \in 1..Len(rootSpanTreeMap[r].childSpans) :
              /\ rootSpanTreeMap[r].childSpans[j].SpanID \in DOMAIN idMap
              /\ idMap[rootSpanTreeMap[r].childSpans[j].SpanID] = r

(* C7 as stated: for every batch. *)
C7_IdMapInvariantAnyBatch == IdMapInvariant

(* C7 as amended: for every batch with unique span identifiers. *)
C7_IdMapInvariantUnique == UniqueIds => IdMapInvariant

(* A tree with a child and a grandchild, one attached by the classifier and
   one by the resolver. *)
C7_Witness ==
    /\ UniqueIds
    /\ Resolving
    /\ passes = 1
    /\ \E r \in Trees : Len(rootSpanTreeMap[r].childSpans) = 2

(* C8: the spans that survive the resolver are unresolvable. *)
PlacedIds ==
    Trees \cup
    {rootSpanTreeMap[r].childSpans[j].SpanID :
        <<r, j>> \in {p \in Trees \X (1..Len(batch)) :
                         p[2] <= Len(rootSpanTreeMap[p[1]].childSpans)}}

(* C8 as stated: the parent identifier of a surviving span is the identifier
   of no span of the batch. *)
C8_SurvivorParentNotInBatch ==
    Resolved =>
        \A j \in 1..Len(orphanSpans) : orphanSpans[j].span.ParentSpanID \notin BatchIds

(* C8 as amended: the parent identifier of a surviving span is the identifier
   of no root span and of no span attached to a tree. *)
C8_SurvivorParentNotPlaced ==
    Resolved =>
        \A j \in 1..Len(orphanSpans) : orphanSpans[j].span.ParentSpanID \notin PlacedIds

(* A survivor next to a tree whose child was attached by a resolver pass. *)
C8_Witness ==
    /\ pc = "done"
    /\ Len(orphanSpans) > 0
    /\ passes = 2
    /\ PlacedIds # Trees

(* C9: trees are created once and are append-only. *)
IsPrefix(s, u) == Len(s) <= Len(u) /\ \A j \in 1..Len(s) : s[j] = u[j]

TreesOnlyGrow ==
    \A r \in DOMAIN rootSpanTreeMap :
        /\ r \in DOMAIN rootSpanTreeMap'
        /\ rootSpanTreeMap'[r].rootSpan = rootSpanTreeMap[r].rootSpan
        /\ IsPrefix(rootSpanTreeMap[r].childSpans, rootSpanTreeMap'[r].childSpans)

RootIdsUnique ==
    \A a, b \in NonNil \ NonRoots : a # b => batch[a].SpanID # batch[b].SpanID

(* C9 as stated: in every batch no step removes a tree, replaces its root span
   or changes its child list otherwise than by appending. *)
C9_TreesAppendOnlyAnyBatch == [][TreesOnlyGrow]_vars

(* C9 as amended: the same, in every batch whose root spans have distinct
   identifiers. *)
C9_TreesAppendOnlyDistinctRoots == [][RootIdsUnique => TreesOnlyGrow]_vars

(* A tree that got one child from the classifier and then one from the
   resolver. *)
C9_Witness ==
    /\ RootIdsUnique
    /\ pc = "done"
    /\ passes > 0
    /\ maybeOrphanSpans # <<>>
    /\ \E r \in Trees :
          /\ Len(rootSpanTreeMap[r].childSpans) = 2
          /\ rootSpanTreeMap[r].childSpans[2] = maybeOrphanSpans[1].span

(* C10: the fixture scenario.  In every input order the fixture batch yields
   three transactions: rootSpan1 with childSpan1, childChildSpan1 and
   childSpan2; rootSpan2 with root2childSpan; orphanSpan with no spans. *)
SpanIds(tx) == {tx.Spans[j].SpanID : j \in 1..Len(tx.Spans)}
FixtureId(name) == Fixture[CHOOSE n \in 1..Len(Fixture) : Fixture[n].name = name].id

C10_FixtureScenario ==
    pc = "done" =>
        /\ Len(transactions) = 3
        /\ \E a, b, c \in 1..3 :
              /\ transactions[a].trace.SpanID = FixtureId("rootSpan1")
              /\ Len(transactions[a].Spans) = 3
              /\ SpanIds(transactions[a]) = {FixtureId("childSpan1"),
                                             FixtureId("childChildSpan1"),
                                             FixtureId("childSpan2")}
              /\ transactions[b].trace.SpanID = FixtureId("rootSpan2")
              /\ Len(transactions[b].Spans) = 1
              /\ SpanIds(transactions[b]) = {FixtureId("root2childSpan")}
              /\ transactions[c].trace.SpanID = FixtureId("orphanSpan")
              /\ transactions[c].Spans = <<>>

(* The fixture in an order that needs two resolver passes. *)
C10_Witness ==
    /\ pc = "done"
    /\ batch[1].SpanID = FixtureId("childChildSpan1")
    /\ batch[Len(batch)].SpanID = FixtureId("rootSpan1")
    /\ passes = 3
    /\ Len(transactions) = 3

(* C11: root detection.  The classifier makes a span a root exactly when its
   parent identifier is nil or all-zero: it then opens the tree keyed by the
   span's identifier, with the parent stored as "", and seeds the identifier
   map; every other span opens no tree and goes, with its parent identifier
   unchanged, to a child list or to the worklist, whatever the identifier map
   holds for the span's own identifier. *)
ClassifierStepOnSpan == pc = "classify" /\ k <= Len(batch) /\ ~batch[k].isNil

RootIdxs(treeMap) == {treeMap[r].rootSpan.idx : r \in DOMAIN treeMap}

C11_RootDetection ==
    [][ClassifierStepOnSpan =>
          LET id == batch[k].SpanID
              parent == batch[k].ParentSpanID
          IN  IF parent \in {NilBytes, ZeroBytes}
              THEN /\ id \in DOMAIN rootSpanTreeMap'
                   /\ rootSpanTreeMap'[id].rootSpan.idx = k
                   /\ rootSpanTreeMap'[id].rootSpan.ParentSpanID = NoParent
                   /\ idMap'[id] = id
                   /\ maybeOrphanSpans' = maybeOrphanSpans
              ELSE /\ k \notin RootIdxs(rootSpanTreeMap')
                   /\ DOMAIN rootSpanTreeMap' = DOMAIN rootSpanTreeMap
                   /\ \/ /\ Len(maybeOrphanSpans') = Len(maybeOrphanSpans) + 1
                         /\ maybeOrphanSpans'[Len(maybeOrphanSpans')].span.idx = k
                         /\ maybeOrphanSpans'[Len(maybeOrphanSpans')].span.ParentSpanID = parent
                      \/ /\ maybeOrphanSpans' = maybeOrphanSpans
                         /\ \E r \in DOMAIN rootSpanTreeMap' :
                               LET children == rootSpanTreeMap'[r].childSpans
                               IN  /\ Len(children) > 0
                                   /\ children[Len(children)].idx = k
                                   /\ children[Len(children)].ParentSpanID = parent]_vars

(* A root with a nil parent, a root with an all-zero parent and a span attached
   to one of them. *)
C11_Witness ==
    /\ pc = "done"
    /\ \E n \in NonNil : batch[n].ParentSpanID = NilBytes /\ RootPlaces(n) # {}
    /\ \E n \in NonNil : batch[n].ParentSpanID = ZeroBytes /\ RootPlaces(n) # {}
    /\ \E n \in NonNil : ChildPlaces(n) # {}

(* C12: a transaction's span list is its tree's child list verbatim.  Every
   step that changes the child list of a tree it does not open appends the
   span it is visiting (the classifier the spans of the batch in order, then
   the resolver the spans of its worklist pass by pass), and the transaction
   generated for a tree has the tree's child list as its span list. *)
VisitedSpan == IF pc = "classify" THEN Converted(k) ELSE orphanSpans[i].span

C12_SpanListVerbatim ==
    /\ [](Generated =>
             \A r \in Trees : TreeTransaction(r).Spans = rootSpanTreeMap[r].childSpans)
    /\ [][\A r \in DOMAIN rootSpanTreeMap \cap DOMAIN rootSpanTreeMap' :
             (/\ rootSpanTreeMap'[r].rootSpan = rootSpanTreeMap[r].rootSpan
              /\ rootSpanTreeMap'[r].childSpans # rootSpanTreeMap[r].childSpans)
                => rootSpanTreeMap'[r].childSpans =
                       Append(rootSpanTreeMap[r].childSpans, VisitedSpan)]_vars

(* [A, root, B] with A and B children of root: B is attached by the classifier
   and A by the resolver, so the transaction lists B before A. *)
C12_Witness ==
    /\ pc = "done"
    /\ \E r \in Trees :
          /\ ChildIdx(r) = <<3, 1>>
          /\ TreeTransaction(r).Spans = rootSpanTreeMap[r].childSpans

(* C13: determinism.  Classification and resolution are functions of the
   batch, so a second run on the same batch reaches the same tree map and the
   same remainder; it yields the same ordered collection of transactions
   exactly when every order in which the range over the tree map may visit the
   trees gives the transactions that this run produced. *)
C13_Determinism ==
    Generated =>
        \A order \in Orders(Trees) :
            generateTransactions(rootSpanTreeMap, orphanSpans, order) = transactions

(* C14: batch isolation.  While two calls are interleaved, the identifier map,
   the tree map, the worklist and the transactions of the running call hold
   spans of its own batch only, and a span whose parent is no span of its own
   batch is never attached, also when the other call's batch has a span with
   that identifier: it stays in the remainder and gets a transaction of its
   own. *)
OwnSpans == {Converted(n) : n \in NonNil}

C14_BatchIsolation ==
    /\ DOMAIN idMap \subseteq BatchIds
    /\ \A r \in Trees :
          /\ rootSpanTreeMap[r].rootSpan \in OwnSpans
          /\ \A j \in 1..Len(rootSpanTreeMap[r].childSpans) :
                rootSpanTreeMap[r].childSpans[j] \in OwnSpans
    /\ \A j \in 1..Len(maybeOrphanSpans) : maybeOrphanSpans[j].span \in OwnSpans
    /\ \A j \in 1..Len(orphanSpans) : orphanSpans[j].span \in OwnSpans
    /\ \A j \in 1..Len(transactions) :
          /\ transactions[j].trace.SpanID \in BatchIds
          /\ \A c \in 1..Len(transactions[j].Spans) : transactions[j].Spans[c] \in OwnSpans
    /\ \A n \in TrueOrphans :
          /\ ChildPlaces(n) = {}
          /\ Resolved => OrphanPlaces(n) # {}
          /\ Generated => \E j \in 1..Len(transactions) :
                             /\ transactions[j].trace.SpanID = batch[n].SpanID
                             /\ transactions[j].Spans = <<>>

(* The running call is done with a span that stayed an orphan although the
   other call, which has run as well, has a tree for the span's parent. *)
C14_Witness ==
    /\ pc = "done"
    /\ other.pc \notin {"none", "start"}
    /\ \E n \in TrueOrphans :
          /\ OrphanPlaces(n) # {}
          /\ Converted(n).ParentSpanID \in DOMAIN other.rootSpanTreeMap

(* C15: no failure originates from the engine.  Every root identifier that the
   engine reads from the identifier map is the key of a tree, so the access to
   that tree's child list never fails, and every call that returns, returns 0
   dropped spans and a nil error. *)
C15_NoEngineFailure ==
    /\ Range(idMap) \subseteq Trees
    /\ pc = "done" => ret = [droppedSpans |-> 0, err |-> "nil"]

(* A call that returned for a batch of a self-parented span and two spans that
   name each other as parent: all three stay unresolved. *)
C15_Witness ==
    /\ pc = "done"
    /\ ret = [droppedSpans |-> 0, err |-> "nil"]
    /\ Len(orphanSpans) = 3
    /\ \E n \in NonNil : batch[n].ParentSpanID = batch[n].SpanID
    /\ \E a, b \in NonNil :
          /\ batch[a].SpanID # batch[b].SpanID
          /\ batch[a].ParentSpanID = batch[b].SpanID
          /\ batch[b].ParentSpanID = batch[a].SpanID

(* C16: several roots in one trace.  In a batch with unique span identifiers,
   every root span has a tree of its own, whatever trace identifiers the roots
   share; a span whose parent chain leads to a root is in the child list of
   that root's tree and in no other; and the transaction of each root has the
   root's trace identifier and exactly the spans whose chain leads to it. *)
RootsOfBatch == NonNil \ NonRoots

C16_SeveralRootsInOneTrace ==
    Resolved =>
        /\ Cardinality(Trees) = Cardinality(RootsOfBatch)
        /\ \A n \in RootsOfBatch :
              /\ batch[n].SpanID \in Trees
              /\ rootSpanTreeMap[batch[n].SpanID].rootSpan.idx = n
        /\ \A n \in NonRoots :
              LET r == ChainRoot(n, Len(batch))
              IN  r # 0 => /\ Cardinality(ChildPlaces(n)) = 1
                           /\ \A place \in ChildPlaces(n) : place[1] = batch[r].SpanID
        /\ Generated =>
              \A n \in RootsOfBatch :
                 LET tx == TreeTransaction(batch[n].SpanID)
                 IN  /\ tx.trace.TraceID = batch[n].TraceID
                     /\ {tx.Spans[j].idx : j \in 1..Len(tx.Spans)} =
                           {c \in NonRoots : ChainRoot(c, Len(batch)) = n}

(* Two roots of one trace and a child of the second: two transactions with the
   same trace identifier, the first without spans. *)
C16_Witness ==
    /\ pc = "done"
    /\ \E a, b \in RootsOfBatch :
          /\ a < b
          /\ batch[a].TraceID = batch[b].TraceID
          /\ Len(TreeTransaction(batch[a].SpanID).Spans) = 0
          /\ Len(TreeTransaction(batch[b].SpanID).Spans) = 1

(* C17: self-parented span. *)
SelfParented == {n \in NonNil : batch[n].ParentSpanID = batch[n].SpanID}

InWorklist(n) ==
    \/ Classifying /\ \E j \in 1..Len(maybeOrphanSpans) : maybeOrphanSpans[j].span.idx = n
    \/ pc = "resolve" /\ OrphanPlaces(n) # {}
    \/ pc = "pass" /\ \/ \E j \in OrphanPlaces(n) : j >= i
                      \/ \E j \in 1..Len(newOrphanSpans) : newOrphanSpans[j].span.idx = n

(* What the claim says of the self-parented span at batch position n. *)
SelfParentedIsPromoted(n) ==
    /\ ChildPlaces(n) = {}
    /\ RootPlaces(n) = {}
    /\ (k > n /\ (Classifying \/ Resolving)) => InWorklist(n)
    /\ Resolved => Cardinality(OrphanPlaces(n)) = 1
    /\ Generated =>
          \A j \in OrphanPlaces(n) :
             /\ Len(transactions) >= Cardinality(Trees) + j
             /\ OrphanTransaction(j).trace.SpanID = batch[n].SpanID
             /\ OrphanTransaction(j).Spans = <<>>

(* C17 as stated: every self-parented span misses the lookup, stays in the
   worklist through every pass and gets a transaction of its own without
   spans, and the call returns. *)
C17_SelfParentedAnyBatch ==
    /\ [](\A n \in SelfParented : SelfParentedIsPromoted(n))
    /\ <>(pc = "done")

(* C17 as amended: the same for every self-parented span whose identifier no
   other span of the batch has. *)
C17_SelfParentedUniqueId ==
    /\ [](\A n \in SelfParented :
             (\A m \in NonNil \ {n} : batch[m].SpanID # batch[n].SpanID)
                 => SelfParentedIsPromoted(n))
    /\ <>(pc = "done")

(* A self-parented span between a root and a child of the root: the call is
   over and the span has a transaction of its own. *)
C17_Witness ==
    /\ pc = "done"
    /\ UniqueIds
    /\ 2 \in SelfParented
    /\ Cardinality(OrphanPlaces(2)) = 1
    /\ ChildPlaces(3) # {}
    /\ \E j \in OrphanPlaces(2) : OrphanTransaction(j).Spans = <<>>

(* C18: tree metadata comes from the root's context and is frozen.  In every
   state a tree has the library name and version and the resource tags of the
   group in which its root span arrived, whatever the groups of the spans in
   its child list, and every worklist entry has those of its own span's group;
   the transactions carry them: the tree's for a tree, the orphan's own for a
   promoted orphan. *)
HasMetadataOf(holder, n) ==
    /\ holder.libraryName = batch[n].library.name
    /\ holder.libraryVersion = batch[n].library.version
    /\ holder.resourceTags = batch[n].resourceTags

CarriesMetadataOf(tx, n) ==
    /\ tx.SdkName = batch[n].library.name
    /\ tx.SdkVersion = batch[n].library.version
    /\ tx.Tags = batch[n].resourceTags

C18_TreeMetadataFrozen ==
    /\ \A r \in Trees : HasMetadataOf(rootSpanTreeMap[r], rootSpanTreeMap[r].rootSpan.idx)
    /\ \A j \in 1..Len(maybeOrphanSpans) :
          HasMetadataOf(maybeOrphanSpans[j], maybeOrphanSpans[j].span.idx)
    /\ \A j \in 1..Len(orphanSpans) : HasMetadataOf(orphanSpans[j], orphanSpans[j].span.idx)
    /\ Generated =>
          /\ \A r \in Trees :
                CarriesMetadataOf(TreeTransaction(r), rootSpanTreeMap[r].rootSpan.idx)
          /\ \A j \in 1..Len(orphanSpans) :
                /\ Len(transactions) >= Cardinality(Trees) + j
                /\ CarriesMetadataOf(OrphanTransaction(j), orphanSpans[j].span.idx)

(* A root of one group with a child of the other group, and an orphan of the
   other group: the tree's transaction has the root's library and the
   orphan's transaction its own. *)
C18_Witness ==
    /\ pc = "done"
    /\ \E r \in Trees :
          LET tree == rootSpanTreeMap[r]
          IN  /\ Len(tree.childSpans) = 1
              /\ batch[tree.childSpans[1].idx].library # batch[tree.rootSpan.idx].library
              /\ TreeTransaction(r).SdkName = batch[tree.rootSpan.idx].library.name
              /\ \E j \in 1..Len(orphanSpans) :
                    /\ batch[orphanSpans[j].span.idx].library # batch[tree.rootSpan.idx].library
                    /\ OrphanTransaction(j).SdkName = batch[orphanSpans[j].span.idx].library.name


(* C19 as stated: Flush returns true if the pending count reaches zero before
   the timeout elapses, in particular with nothing pending, and returns false
   if the timeout elapses while events are still pending. *)
C19_FlushAsStated ==
    flush.pc = "returned" =>
        flush.result = (~flush.toolate \/ flush.pendingAtTimeout = 0)

FlushReturns == flush.pc = "select" /\ flush'.pc = "returned"

(* C19: Flush returns true only after the pending count has reached zero and
   the waiting goroutine has closed its channel, and false only after the
   timeout has elapsed; when only one of the two has happened the result is
   the one of that case, and with events still pending it is false. *)
C19_FlushResult ==
    [][FlushReturns =>
          /\ flush'.result => (flush.c /\ t.wg = 0)
          /\ ~flush'.result => (flush.toolate /\ now >= flush.deadline)
          /\ (flush.c /\ ~flush.toolate) => flush'.result
          /\ (flush.toolate /\ ~flush.c) => ~flush'.result
          /\ t.wg > 0 => ~flush'.result]_vars

(* Flush has returned true before its timeout, after the worker handled an
   accepted transaction. *)
C19_Witness ==
    /\ flush.pc = "returned"
    /\ flush.result
    /\ ~flush.toolate
    /\ client.err = "nil"
    /\ t.wg = 0

(* C20: retryAfter returns 60 seconds without a Retry-After header or with a
   value that is neither a date nor an integer, the difference between the
   date and now for a date, and that many seconds for an integer. *)
statedRetryAfter(nowTime, r) ==
    IF r.header.kind = "date" THEN r.header.value * Second - nowTime
    ELSE IF r.header.kind = "int" THEN r.header.value * Second
    ELSE 60 * Second

C20_RetryAfterAsStated ==
    retryAfterCall.pc = "returned" =>
        retryAfterCall.duration =
            statedRetryAfter(retryAfterCall.now, retryAfterCall.response)

(* C21: as long as no call of Configure was given a DSN that parses, the DSN
   of the transport is unset, the worker is not started, no buffer exists, no
   request is pending, and every SendTransaction returns the invalid-DSN error
   at its first test. *)
C21_NoDSNNoEvents ==
    ~client.configured =>
        /\ t.DSN = "nil"
        /\ ~t.start
        /\ worker.pc = "off"
        /\ t.buffer = 0
        /\ channels = <<>>
        /\ t.wg = 0
        /\ client.pc = "idle"
        /\ client.sends > 0 => client.err = "invalid DSN"

(* Configure was called with a DSN that does not parse, and SendTransaction
   was called twice after it. *)
C21_Witness ==
    /\ ~client.configured
    /\ client.configures > 0
    /\ client.sends = 2
    /\ client.err = "invalid DSN"

(* C22: statusFromSpanStatus returns ("", "") for a nil status, the table entry
   of the code and the message of the status for a code from 0 to 16, and
   ("unknown", "error code N") for any other code N; it never indexes outside
   the table. *)
C22_StatusFromSpanStatus ==
    fnCall.pc = "returned" /\ fnCall.fn = "statusFromSpanStatus" =>
        LET spanStatus == fnCall.arg
            result == fnCall.result
        IN  /\ Len(canonicalCodes) = 17
            /\ result.status # "panic: index out of range"
            /\ spanStatus.isNil => result = [status |-> "", message |-> ""]
            /\ ~spanStatus.isNil /\ spanStatus.code \in 0..16 =>
                  /\ result.status = canonicalCodes[spanStatus.code + 1]
                  /\ result.message = spanStatus.message
            /\ ~spanStatus.isNil /\ spanStatus.code \notin 0..16 =>
                  /\ result.status = "unknown"
                  /\ result.message = <<"error code ", spanStatus.code>>

(* The call returned for the first code above the table. *)
C22_Witness ==
    /\ fnCall.pc = "returned"
    /\ fnCall.fn = "statusFromSpanStatus"
    /\ ~fnCall.arg.isNil
    /\ fnCall.arg.code = 17
    /\ fnCall.result.status = "unknown"

(* C23: the no-progress test does not fire on the first call of the resolver:
   with a non-empty worklist the first call starts a pass, a pass that was
   started visits every entry of its worklist before the resolver goes on, and
   the resolver has run at least one pass when it returns. *)
C23_AtLeastOnePass ==
    /\ [](Resolved /\ Len(maybeOrphanSpans) > 0 => passes >= 1)
    /\ [][/\ (pc = "resolve" /\ passes = 0 /\ Len(orphanSpans) > 0) => pc' = "pass"
          /\ (pc = "pass" /\ pc' # "pass") => i > Len(orphanSpans)]_vars

(* The resolver returned after one pass in which no span was resolved. *)
C23_Witness ==
    /\ pc = "done"
    /\ Len(maybeOrphanSpans) > 1
    /\ passes = 1
    /\ Len(orphanSpans) = Len(maybeOrphanSpans)

(* C24: whenever the resolver is entered or has returned, its worklist is the
   sub-sequence of the classifier's worklist made of the entries whose span is
   in no child list: the same records, in their original order. *)
Unresolved(entry) == ChildPlaces(entry.span.idx) = {}

C24_RemainderIsSubsequence ==
    pc = "resolve" \/ Resolved =>
        orphanSpans = SelectSeq(maybeOrphanSpans, Unresolved)

(* A span of the worklist was resolved and two spans around it remain. *)
C24_Witness ==
    /\ pc = "done"
    /\ Len(maybeOrphanSpans) = 3
    /\ Len(orphanSpans) = 2
    /\ ~Unresolved(maybeOrphanSpans[2])

(* C25: when a span that is opened as a root or attached has an identifier
   that is already a key of the identifier map, the entry is overwritten: with
   the identifier itself for a root, with the root identifier of its parent
   for an attached span; every other entry is kept, and the call returns
   (0, nil). *)
ResolverStepOnSpan == pc = "pass" /\ i <= Len(orphanSpans)

C25_LastWriteWins ==
    /\ [][(ClassifierStepOnSpan \/ ResolverStepOnSpan)
            /\ VisitedSpan.SpanID \in DOMAIN idMap
            /\ (IsRootSpan(VisitedSpan) \/ VisitedSpan.ParentSpanID \in DOMAIN idMap)
          => /\ idMap'[VisitedSpan.SpanID] =
                    IF IsRootSpan(VisitedSpan) THEN VisitedSpan.SpanID
                    ELSE idMap[VisitedSpan.ParentSpanID]
             /\ DOMAIN idMap' = DOMAIN idMap
             /\ \A id \in DOMAIN idMap \ {VisitedSpan.SpanID} : idMap'[id] = idMap[id]]_vars
    /\ [](pc = "done" => ret = [droppedSpans |-> 0, err |-> "nil"])
    /\ <>(pc = "done")

(* The call returned, and the identifier of a root span is mapped to another
   root: a later span with the same identifier was attached to that tree. *)
C25_Witness ==
    /\ pc = "done"
    /\ \E r \in Trees : idMap[r] # r

(* C26: when the resolver has returned, no span of the remainder has a parent
   identifier that is a key of the identifier map. *)
C26_TrueFixPoint ==
    Resolved =>
        \A j \in 1..Len(orphanSpans) : orphanSpans[j].span.ParentSpanID \notin DOMAIN idMap

(* Three passes: a span was visited in the first pass before its parent was
   attached later in that pass, it was attached in the second pass, and the
   third pass left one span. *)
C26_Witness ==
    /\ pc = "done"
    /\ passes = 3
    /\ Len(maybeOrphanSpans) = 3
    /\ Len(orphanSpans) = 1
    /\ maybeOrphanSpans[1].span.ParentSpanID = maybeOrphanSpans[2].span.SpanID

(* C27: two calls on the same spans with unique identifiers, in two orders,
   end with the same trees, the same set of spans in the child list of each
   tree, without repetition, and the same set of spans in the remainder. *)
ChildIds(treeMap, r) ==
    {treeMap[r].childSpans[j].SpanID : j \in 1..Len(treeMap[r].childSpans)}

RemainderIds(orphans) == {orphans[j].span.SpanID : j \in 1..Len(orphans)}

BothOrdersDone == pc = "done" /\ other.pc = "done"

C27_OrderIndependence ==
    BothOrdersDone =>
        /\ DOMAIN rootSpanTreeMap = DOMAIN other.rootSpanTreeMap
        /\ \A r \in DOMAIN rootSpanTreeMap :
              /\ r \in DOMAIN other.rootSpanTreeMap
              /\ rootSpanTreeMap[r].rootSpan.SpanID = other.rootSpanTreeMap[r].rootSpan.SpanID
              /\ ChildIds(rootSpanTreeMap, r) = ChildIds(other.rootSpanTreeMap, r)
              /\ Len(rootSpanTreeMap[r].childSpans) = Len(other.rootSpanTreeMap[r].childSpans)
        /\ RemainderIds(orphanSpans) = RemainderIds(other.orphanSpans)
        /\ Len(orphanSpans) = Len(other.orphanSpans)

(* Both calls returned; the child list of a tree is in different orders in the
   two calls. *)
C27_Witness ==
    /\ BothOrdersDone
    /\ \E r \in DOMAIN rootSpanTreeMap :
          /\ Len(rootSpanTreeMap[r].childSpans) = 2
          /\ rootSpanTreeMap[r].childSpans[1].SpanID =
                other.rootSpanTreeMap[r].childSpans[2].SpanID

(* C28: at every point of processing a batch with unique identifiers, a span
   of a child list whose parent is not the root of the tree comes after its
   parent in that list. *)
C28_ParentBeforeChild ==
    \A r \in Trees :
        LET children == rootSpanTreeMap[r].childSpans
        IN  \A j \in 1..Len(children) :
                children[j].ParentSpanID # rootSpanTreeMap[r].rootSpan.SpanID =>
                    \E q \in 1..(j - 1) : children[q].SpanID = children[j].ParentSpanID

(* A span follows its parent in a child list although it came before its
   parent, and before the root, in the batch. *)
C28_Witness ==
    /\ pc = "done"
    /\ \E r \in Trees :
          LET children == rootSpanTreeMap[r].childSpans
          IN  /\ Len(children) = 2
              /\ children[2].ParentSpanID = children[1].SpanID
              /\ children[2].idx < children[1].idx
              /\ children[2].idx < rootSpanTreeMap[r].rootSpan.idx

(* C29: at every point every value of the identifier map is a key of the tree
   map, for batches with duplicate identifiers as well; so the tree that a
   span is about to be attached to exists. *)
C29_NoMissingTree ==
    /\ \A id \in DOMAIN idMap : idMap[id] \in DOMAIN rootSpanTreeMap
    /\ (ClassifierStepOnSpan \/ ResolverStepOnSpan)
          /\ ~IsRootSpan(VisitedSpan)
          /\ VisitedSpan.ParentSpanID \in DOMAIN idMap
       => idMap[VisitedSpan.ParentSpanID] \in DOMAIN rootSpanTreeMap

(* A span is about to be attached to the tree of its parent after two spans
   with the same identifier were visited. *)
C29_Witness ==
    /\ ClassifierStepOnSpan
    /\ k = 3
    /\ ~batch[1].isNil /\ ~batch[2].isNil
    /\ batch[1].SpanID = batch[2].SpanID
    /\ ~IsRootSpan(VisitedSpan)
    /\ VisitedSpan.ParentSpanID = batch[1].SpanID
    /\ VisitedSpan.ParentSpanID \in DOMAIN idMap

(* C30: at every step of processing a batch with unique identifiers, the
   number of trees plus the lengths of all child lists plus the number of
   spans held unresolved is the number of non-nil spans the classifier has
   visited, and each of these spans is in exactly one of these places. *)
VisitedByClassifier == {n \in NonNil : n < k}

ChildSlots == UNION {{r} \X (1..Len(rootSpanTreeMap[r].childSpans)) : r \in Trees}

(* The spans held unresolved: the classifier's worklist, the resolver's
   worklist, or during a pass the spans carried forward and those not yet
   visited. *)
HeldUnresolved ==
    IF pc \in {"start", "classify"} THEN maybeOrphanSpans
    ELSE IF pc = "pass"
    THEN newOrphanSpans \o SubSeq(orphanSpans, i, Len(orphanSpans))
    ELSE orphanSpans

PlacedIdxs ==
    {rootSpanTreeMap[r].rootSpan.idx : r \in Trees}
        \cup {rootSpanTreeMap[slot[1]].childSpans[slot[2]].idx : slot \in ChildSlots}
        \cup {HeldUnresolved[j].span.idx : j \in 1..Len(HeldUnresolved)}

C30_SpanConservation ==
    UniqueIds =>
        /\ Cardinality(Trees) + Cardinality(ChildSlots) + Len(HeldUnresolved)
              = Cardinality(VisitedByClassifier)
        /\ PlacedIdxs = VisitedByClassifier

(* After the visit of a span in a resolver pass over a batch with a nil span:
   the span has moved from the worklist into the child list of a tree. *)
C30_Witness ==
    /\ UniqueIds
    /\ pc = "pass"
    /\ i = 2
    /\ Len(orphanSpans) = 1
    /\ newOrphanSpans = <<>>
    /\ Cardinality(ChildSlots) = 1
    /\ \E n \in 1..Len(batch) : batch[n].isNil

(* C31: the frame of the resolver.  A step of the resolver keeps the keys of
   the tree map, the root span and the metadata of every tree, and the
   classifier's worklist; a visit leaves the worklist of its pass as it is,
   appends at most the visited span to one child list, and writes at most the
   identifier-map entry of the visited span, with the key of that tree. *)
ResolverStep == pc \in {"resolve", "pass"}

ResolverAttaches == ResolverStepOnSpan /\ VisitedSpan.ParentSpanID \in DOMAIN idMap

ResolverTreeFrame ==
    /\ DOMAIN rootSpanTreeMap' = DOMAIN rootSpanTreeMap
    /\ \A r \in DOMAIN rootSpanTreeMap :
          /\ rootSpanTreeMap'[r].rootSpan = rootSpanTreeMap[r].rootSpan
          /\ rootSpanTreeMap'[r].libraryName = rootSpanTreeMap[r].libraryName
          /\ rootSpanTreeMap'[r].libraryVersion = rootSpanTreeMap[r].libraryVersion
          /\ rootSpanTreeMap'[r].resourceTags = rootSpanTreeMap[r].resourceTags
          /\ rootSpanTreeMap'[r].childSpans =
                IF ResolverAttaches /\ r = idMap[VisitedSpan.ParentSpanID]
                THEN Append(rootSpanTreeMap[r].childSpans, VisitedSpan)
                ELSE rootSpanTreeMap[r].childSpans

ResolverWorklistFrame ==
    /\ maybeOrphanSpans' = maybeOrphanSpans
    /\ ResolverStepOnSpan => orphanSpans' = orphanSpans

ResolverWritesVisitedOnly ==
    /\ \A id \in DOMAIN idMap \ {VisitedSpan.SpanID} :
          id \in DOMAIN idMap' /\ idMap'[id] = idMap[id]
    /\ DOMAIN idMap' \subseteq DOMAIN idMap \cup {VisitedSpan.SpanID}
    /\ ResolverAttaches =>
          /\ VisitedSpan.SpanID \in DOMAIN idMap'
          /\ idMap'[VisitedSpan.SpanID] = idMap[VisitedSpan.ParentSpanID]
    /\ ~ResolverAttaches => idMap' = idMap

ResolverKeepsEntries ==
    \A id \in DOMAIN idMap : id \in DOMAIN idMap' /\ idMap'[id] = idMap[id]

ResolverIdMapFrame ==
    IF ResolverStepOnSpan THEN ResolverWritesVisitedOnly ELSE idMap' = idMap

(* C31 as stated: for every batch, the entries that the identifier map has,
   those of the roots among them, are kept. *)
C31_ResolverFrameAnyBatch ==
    [][ResolverStep =>
          /\ ResolverTreeFrame
          /\ ResolverWorklistFrame
          /\ ResolverIdMapFrame
          /\ ResolverKeepsEntries]_vars

(* C31 as amended: the entries of the identifier map, those of the roots among
   them, are kept when the identifiers of the batch are unique; with duplicate
   identifiers the entry of the attached span's identifier is overwritten. *)
C31_ResolverFrame ==
    [][ResolverStep =>
          /\ ResolverTreeFrame
          /\ ResolverWorklistFrame
          /\ ResolverIdMapFrame
          /\ UniqueIds => ResolverKeepsEntries]_vars

(* The first visit of a pass has attached its span to a tree. *)
C31_Witness ==
    /\ pc = "pass"
    /\ i = 2
    /\ ChildPlaces(orphanSpans[1].span.idx) # {}
    /\ orphanSpans[1].span.SpanID \in DOMAIN idMap

(* C32: under fair scheduling every request that SendTransaction put into a
   buffer is eventually taken out by the worker and its pending count is
   released, also when Configure is called more than once. *)
Queued(request) ==
    \E c \in DOMAIN channels :
        \E j \in 1..Len(channels[c].queue) : channels[c].queue[j] = request

C32_AcceptedIsDelivered ==
    \A request \in 1..MaxSends :
        Queued(request) ~> (~Queued(request) /\ worker.request # request /\ t.wg = 0)

(* C33 as stated: in every state the pending count is the number of requests
   in the buffer plus the request the worker is handling. *)
InBuffer == IF t.buffer = 0 THEN 0 ELSE Len(channels[t.buffer].queue)

Handling == IF worker.pc = "do" THEN 1 ELSE 0

C33_BalanceAsStated ==
    /\ t.wg >= 0
    /\ t.wg = InBuffer + Handling

(* C33 as amended: in every state the pending count is the number of requests
   in all the buffers that Configure made, plus the request the worker is
   handling, plus one for the call of SendTransaction that is between its
   wg.Add and its select; it is never negative.  A SendTransaction that
   returns an error before wg.Add does not touch the counter or a buffer, and
   one that finds the buffer full gives back the one it added. *)
RECURSIVE InAllBuffers(_)
InAllBuffers(c) == IF c = 0 THEN 0 ELSE Len(channels[c].queue) + InAllBuffers(c - 1)

InSelect == IF client.pc = "select" THEN 1 ELSE 0

SendReturnsError ==
    /\ client.pc \in {"idle", "select"}
    /\ client'.sends + client'.configures > client.sends + client.configures
          \/ client.pc = "select"
    /\ client'.pc = "idle"
    /\ client'.err \in {"invalid DSN", "disabled", "encode", "full"}
    /\ client'.configures = client.configures

C33_Balance ==
    /\ [](t.wg >= 0 /\ t.wg = InAllBuffers(Len(channels)) + Handling + InSelect)
    /\ [][SendReturnsError =>
             /\ channels' = channels
             /\ t'.wg = t.wg - InSelect]_vars

(* The worker handles a request while a call of SendTransaction is between
   wg.Add and the select: the count is 2 with an empty buffer. *)
C33_Witness ==
    /\ client.pc = "select"
    /\ worker.pc = "do"
    /\ t.wg = 2
    /\ InBuffer = 0

(* C34: the select of SendTransaction can always take its step; with
   BufferSize requests in the buffer the step returns the buffer-full error
   and leaves every buffer as it is; a buffer has the capacity BufferSize and
   never holds more requests than that. *)
SelectOnFullBuffer ==
    /\ client.pc = "select"
    /\ client'.pc # "select"
    /\ Len(channels[t.buffer].queue) >= t.BufferSize

C34_NeverBlocksOnFullBuffer ==
    /\ [](/\ \A c \in DOMAIN channels :
                /\ channels[c].cap = t.BufferSize
                /\ Len(channels[c].queue) <= t.BufferSize
          /\ client.pc = "select" => ENABLED SendSelect)
    /\ [][SelectOnFullBuffer =>
             /\ client'.pc = "idle"
             /\ client'.err = "full"
             /\ channels' = channels]_vars

(* SendTransaction has returned the buffer-full error and the buffer holds
   BufferSize requests. *)
C34_Witness ==
    /\ client.pc = "idle"
    /\ client.err = "full"
    /\ t.buffer # 0
    /\ Len(channels[t.buffer].queue) = t.BufferSize

(* C35: a 429 response sets the disabled deadline to now + retryAfter of the
   response, and nothing else changes it; a SendTransaction called while the
   transport is disabled returns the disabled error without touching the
   pending count or a buffer; a request that the worker receives while the
   transport is disabled is not sent, and its pending count is released. *)
WorkerGotResponse == worker.pc = "do" /\ worker'.pc = "range"

BeforeDeadline == now < t.disabledUntil

SendCalledWhileDisabled ==
    client.pc = "idle" /\ client'.sends = client.sends + 1 /\ BeforeDeadline

WorkerReceivedWhileDisabled ==
    worker.pc = "range" /\ channels' # channels /\ client' = client /\ BeforeDeadline

C35_RateLimiting ==
    [][/\ WorkerGotResponse =>
             t'.disabledUntil =
                 IF worker'.response.status = 429
                 THEN now + retryAfter(now, worker'.response)
                 ELSE t.disabledUntil
       /\ ~WorkerGotResponse => t'.disabledUntil = t.disabledUntil
       /\ SendCalledWhileDisabled =>
             /\ client'.pc = "idle"
             /\ client'.err = "disabled"
             /\ channels' = channels
             /\ t' = t
       /\ WorkerReceivedWhileDisabled =>
             /\ worker' = worker
             /\ channels' = [channels EXCEPT ![worker.ch].queue = Tail(@)]
             /\ t'.wg = t.wg - 1]_vars

(* After a 429 response: SendTransaction has returned the disabled error, and
   the deadline has not passed. *)
C35_Witness ==
    /\ worker.response.status = 429
    /\ BeforeDeadline
    /\ client.pc = "idle"
    /\ client.err = "disabled"
    /\ now > 0

(* C36: the shutdown hook calls Flush with the time that remains to the
   deadline of its context when the context has one, and with one second
   otherwise; it returns nil whatever Flush returned, also when Flush timed
   out with requests still pending. *)
ShutdownCalled == fnCall = NoFnCall /\ fnCall' # fnCall /\ fnCall'.fn = "shutdown"

ShutdownReturned == fnCall.pc = "called" /\ fnCall'.pc = "returned"

HookCanReturn ==
    (fnCall.pc = "called" /\ fnCall.fn = "shutdown" /\ flush.pc = "returned")
        => ENABLED ShutdownReturn

C36_ShutdownReturnsNil ==
    /\ [][ShutdownCalled =>
             /\ flush'.pc = "select"
             /\ flush'.deadline =
                    IF fnCall'.arg.ok
                    THEN now + (fnCall'.arg.deadline - now)
                    ELSE now + Second]_vars
    /\ [][ShutdownReturned =>
             /\ fnCall'.result.err = "nil"
             /\ fnCall'.result.logged = ~flush.result]_vars
    /\ [](fnCall.pc = "returned" => fnCall.result.err = "nil")
    /\ []HookCanReturn

(* The hook has returned nil after a Flush that timed out with a request
   still pending. *)
C36_Witness ==
    /\ fnCall.pc = "returned"
    /\ fnCall.fn = "shutdown"
    /\ fnCall.result.err = "nil"
    /\ ~flush.result
    /\ flush.pendingAtTimeout > 0
    /\ t.wg > 0

(* The hook has returned after a Flush bounded by the deadline of the context. *)
C36_WitnessDeadline ==
    /\ fnCall.pc = "returned"
    /\ fnCall.fn = "shutdown"
    /\ fnCall.arg.ok
    /\ flush.deadline = fnCall.arg.deadline

(* C37: generateSpanDescriptors uses the first convention whose attribute the
   span carries, in the order http.method, db.type, rpc.service,
   messaging.system, faas.trigger, and none; the op and the description are
   those of that convention alone, whatever other convention attributes the
   span carries. *)
Carried(key) == key \in DOMAIN fnCall.arg.attrs

Convention ==
    CASE Carried("http.method") -> "http"
      [] ~Carried("http.method") /\ Carried("db.type") -> "db"
      [] ~Carried("http.method") /\ ~Carried("db.type") /\ Carried("rpc.service") -> "rpc"
      [] /\ ~Carried("http.method") /\ ~Carried("db.type") /\ ~Carried("rpc.service")
         /\ Carried("messaging.system") -> "messaging"
      [] /\ ~Carried("http.method") /\ ~Carried("db.type") /\ ~Carried("rpc.service")
         /\ ~Carried("messaging.system") /\ Carried("faas.trigger") -> "faas"
      [] OTHER -> "none"

TextOf(key) ==
    IF fnCall.arg.attrs[key].isString THEN fnCall.arg.attrs[key].string ELSE ""

C37_DescriptorPriority ==
    fnCall.pc = "returned" /\ fnCall.fn = "generateSpanDescriptors" =>
        LET name == fnCall.arg.name
            spanKind == fnCall.arg.spanKind
            op == fnCall.result.op
            description == fnCall.result.description
        IN  /\ Convention = "http" =>
                  /\ op = IF spanKind = "SpanKindCLIENT" THEN <<"http", ".client">>
                          ELSE IF spanKind = "SpanKindSERVER" THEN <<"http", ".server">>
                          ELSE <<"http">>
                  /\ description =
                         IF TextOf("http.method") = "" THEN <<" ", name>>
                         ELSE <<TextOf("http.method"), " ", name>>
            /\ Convention = "db" =>
                  /\ op = <<"db">>
                  /\ description =
                         IF ~Carried("db.statement") THEN <<name>>
                         ELSE IF TextOf("db.statement") = "" THEN <<>>
                         ELSE <<TextOf("db.statement")>>
            /\ Convention = "rpc" => op = <<"rpc">> /\ description = <<name>>
            /\ Convention = "messaging" => op = <<"message">> /\ description = <<name>>
            /\ Convention = "faas" =>
                  /\ op = IF TextOf("faas.trigger") = "" THEN <<>>
                          ELSE <<TextOf("faas.trigger")>>
                  /\ description = <<name>>
            /\ Convention = "none" => op = <<>> /\ description = <<name>>

(* The call returned for a server span that carries the attributes of all five
   conventions and a db statement. *)
C37_Witness ==
    /\ fnCall.pc = "returned"
    /\ fnCall.fn = "generateSpanDescriptors"
    /\ DOMAIN fnCall.arg.attrs = AttributeKeys
    /\ fnCall.arg.spanKind = "SpanKindSERVER"
    /\ fnCall.arg.attrs["http.method"].isString
    /\ fnCall.result.op = <<"http", ".server">>

(* C38: after any sequence of updateStore calls every call has returned, spans
   holds the spans of the calls in their order, and earliestSpan and latestSpan
   are the first span added with the least StartTimestamp and the first span
   added with the greatest Timestamp. *)
StoreCalls == fnCall.arg

Store == fnCall.result

IsFirstEarliest(n) ==
    /\ \A m \in 1..Len(StoreCalls) :
          StoreCalls[n].StartTimestamp <= StoreCalls[m].StartTimestamp
    /\ \A m \in 1..(n - 1) :
          StoreCalls[n].StartTimestamp < StoreCalls[m].StartTimestamp

IsFirstLatest(n) ==
    /\ \A m \in 1..Len(StoreCalls) : StoreCalls[n].Timestamp >= StoreCalls[m].Timestamp
    /\ \A m \in 1..(n - 1) : StoreCalls[n].Timestamp > StoreCalls[m].Timestamp

BoundsOfSpansAdded ==
    /\ Store.spans = StoreCalls
    /\ StoreCalls # <<>> =>
          /\ \E n \in 1..Len(StoreCalls) :
                IsFirstEarliest(n) /\ Store.earliestSpan = StoreCalls[n]
          /\ \E n \in 1..Len(StoreCalls) :
                IsFirstLatest(n) /\ Store.latestSpan = StoreCalls[n]

C38_SpanStoreBounds ==
    fnCall.fn = "updateStore" =>
        /\ fnCall.pc # "panicked"
        /\ (\A n \in 1..Len(StoreCalls) : ~StoreCalls[n].isNil) => BoundsOfSpansAdded

(* The same for the calls whose argument is a span, none of them a nil pointer. *)
C38_BoundsOfNonNilSpans ==
    (fnCall.fn = "updateStore" /\ \A n \in 1..Len(StoreCalls) : ~StoreCalls[n].isNil) =>
        fnCall.pc # "panicked" /\ BoundsOfSpansAdded

(* Three spans were added, the second with the start of the first, the third
   with the end of the second. *)
C38_NonNilWitness ==
    /\ fnCall.fn = "updateStore"
    /\ fnCall.pc = "ready"
    /\ Len(StoreCalls) = 3
    /\ \A n \in 1..3 : ~StoreCalls[n].isNil
    /\ StoreCalls[1] # StoreCalls[2]
    /\ StoreCalls[1].StartTimestamp = StoreCalls[2].StartTimestamp
    /\ Store.earliestSpan = StoreCalls[1]
    /\ Store.latestSpan = StoreCalls[2]
    /\ StoreCalls[3].Timestamp = StoreCalls[2].Timestamp

(* C39: the Sdk name and the Sdk version of every transaction are the name and
   the version of the instrumentation library of the span group in which the
   root span of the transaction arrived. *)
LibraryOfRoot(transaction) == batch[transaction.trace.SpanID].library

C39_SdkIsLibraryAsStated ==
    pc = "done" =>
        \A n \in 1..Len(transactions) :
            /\ transactions[n].SdkName = LibraryOfRoot(transactions[n]).name
            /\ transactions[n].SdkVersion = LibraryOfRoot(transactions[n]).version

(* C39, amended: the Sdk name and the Sdk version of a transaction are those of
   the library of its root span when that library is not nil and has a name
   and a version; otherwise both are empty. *)
IsComplete(library) == ~library.isNil /\ library.name # "" /\ library.version # ""

C39_SdkIsLibrary ==
    pc = "done" =>
        \A n \in 1..Len(transactions) :
            LET library == LibraryOfRoot(transactions[n])
            IN  /\ IsComplete(library) =>
                      /\ transactions[n].SdkName = library.name
                      /\ transactions[n].SdkVersion = library.version
                /\ ~IsComplete(library) =>
                      /\ transactions[n].SdkName = ""
                      /\ transactions[n].SdkVersion = ""

(* A root span arrived under a library with a name and no version, and its
   transaction was made; an orphan arrived under a library with both. *)
C39_Witness ==
    /\ pc = "done"
    /\ Len(transactions) = 2
    /\ \E n \in 1..2 :
          /\ LibraryOfRoot(transactions[n]).name = "libA"
          /\ LibraryOfRoot(transactions[n]).version = ""
          /\ batch[transactions[n].trace.SpanID].ParentSpanID = ZeroBytes
    /\ \E n \in 1..2 :
          /\ IsComplete(LibraryOfRoot(transactions[n]))
          /\ batch[transactions[n].trace.SpanID].ParentSpanID = 3

====
